---- MODULE Spec2Model ----
(***************************************************************************)
(* Mass flow baseline (src/massflow_baseline.py): the estimators that turn *)
(* the WasteDataFlow export into tonnages of DRS materials per authority.  *)
(*                                                                         *)
(* State: raw is the export as get_data reads it (one record per           *)
(* Authority, Period, QuestionNumber, ColText, RowText), ret is the table  *)
(* the last call returned, files is the content of data_dir (each .csv     *)
(* with the call that wrote it), loadable says whether the export can be   *)
(* read.                                                                   *)
(* pandas floats are modelled as exact fractions <<n, d>> in lowest terms  *)
(* (d > 0); NaN is <<0, 0>>.  Floating-point rounding is not modelled.     *)
(***************************************************************************)
EXTENDS Integers, Sequences, FiniteSets, TLC

VARIABLES raw, ret, files, loadable

vars == <<raw, ret, files, loadable>>

\* Largest number of records entered into the export.
MaxRecords == 2

\* Largest number of records entered for the two HWRC sub-sources and the
\* other streams that are not interpolated.
MaxHwrcsRecords == 3

\* Largest number of records entered beside the population figures for the
\* commercial streams.
MaxCommercialRecords == 3

-----------------------------------------------------------------------------
(* Float arithmetic with NaN, as pandas applies it to a cell.              *)

NaN == <<0, 0>>
IsNaN(x) == x[2] = 0
notnull(x) == x[2] # 0

Abs(n) == IF n < 0 THEN -n ELSE n

RECURSIVE GCD(_, _)
GCD(a, b) == IF b = 0 THEN a ELSE GCD(b, a % b)

\* the fraction n/d (d # 0) in lowest terms with a positive denominator
Frac(n, d) ==
    LET g == GCD(Abs(n), Abs(d))
        s == IF d < 0 THEN -1 ELSE 1
    IN  <<s * (n \div g), s * (d \div g)>>

Float(n) == <<n, 1>>

\* x * y; NaN if either operand is NaN
Mul(x, y) ==
    IF IsNaN(x) \/ IsNaN(y) THEN NaN
    ELSE LET g1 == GCD(Abs(x[1]), y[2])
             g2 == GCD(Abs(y[1]), x[2])
         IN  IF x[1] = 0 \/ y[1] = 0 THEN Float(0)
             ELSE <<(x[1] \div g1) * (y[1] \div g2), (x[2] \div g2) * (y[2] \div g1)>>

\* x + y; NaN if either operand is NaN
Add(x, y) ==
    IF IsNaN(x) \/ IsNaN(y) THEN NaN
    ELSE LET g == GCD(x[2], y[2])
         IN  Frac(x[1] * (y[2] \div g) + y[1] * (x[2] \div g), (x[2] \div g) * y[2])

\* x - y; NaN if either operand is NaN
Sub(x, y) == IF IsNaN(y) THEN NaN ELSE Add(x, <<-y[1], y[2]>>)

\* x / y for a divisor other than zero (populations are positive); NaN if
\* either operand is NaN
Div(x, y) ==
    IF IsNaN(x) \/ IsNaN(y) \/ y[1] = 0 THEN NaN
    ELSE Mul(x, Frac(y[2], y[1]))

Less(x, y) == x[1] * y[2] < y[1] * x[2]

\* Series.replace(np.NaN, other), cell by cell
replaceNaN(x, other) == IF IsNaN(x) THEN other ELSE x

\* Series.replace(0, other), cell by cell
replace0(x, other) == IF x = Float(0) THEN other ELSE x

-----------------------------------------------------------------------------
(* Exact arithmetic on numbers beyond 32 bits: the container counts of     *)
(* get_total_weight_drs_list (14800000000) and what is computed from them. *)
(* A natural number is its sequence of base-10000 digits, lowest first; a  *)
(* number is a fraction n/d of two of them with a sign.  The operators     *)
(* take their arguments by value (With1, With2, With3), so that a nested   *)
(* application evaluates each argument once.                               *)

With1(F(_), a) == CHOOSE r \in {F(u) : u \in {a}} : TRUE
With2(F(_, _), a, b) == CHOOSE r \in {F(u, v) : u \in {a}, v \in {b}} : TRUE
With3(F(_, _, _), a, b, c) ==
    CHOOSE r \in {F(u, v, w) : u \in {a}, v \in {b}, w \in {c}} : TRUE

RECURSIVE Big(_)
Big(n) == IF n = 0 THEN <<>> ELSE <<n % 10000>> \o Big(n \div 10000)

Digit(a) == IF a = <<>> THEN 0 ELSE Head(a)
Rest(a) == IF a = <<>> THEN <<>> ELSE Tail(a)

\* a + b + c
RECURSIVE BigCarry(_, _, _)
BigCarry(a, b, c) ==
    With3(LAMBDA u, v, w :
              IF u = <<>> /\ v = <<>> THEN Big(w)
              ELSE <<(Digit(u) + Digit(v) + w) % 10000>>
                       \o BigCarry(Rest(u), Rest(v), (Digit(u) + Digit(v) + w) \div 10000),
          a, b, c)

BigAdd(a, b) == BigCarry(a, b, 0)

\* a * k + c for a digit k
RECURSIVE BigTimes(_, _, _)
BigTimes(a, k, c) ==
    With3(LAMBDA u, v, w :
              IF u = <<>> THEN Big(w)
              ELSE <<(Head(u) * v + w) % 10000>>
                       \o BigTimes(Tail(u), v, (Head(u) * v + w) \div 10000),
          a, k, c)

\* a * b for b other than zero
RECURSIVE BigTimesAll(_, _)
BigTimesAll(a, b) ==
    With2(LAMBDA u, v :
              IF Len(v) = 1 THEN BigTimes(u, v[1], 0)
              ELSE BigAdd(BigTimes(u, v[1], 0), <<0>> \o BigTimesAll(u, Tail(v))),
          a, b)

BigMul(a, b) == With2(LAMBDA u, v : IF u = <<>> \/ v = <<>> THEN <<>> ELSE BigTimesAll(u, v), a, b)

RECURSIVE BigLess(_, _)
BigLess(a, b) ==
    With2(LAMBDA u, v :
              IF Len(u) # Len(v) THEN Len(u) < Len(v)
              ELSE IF u = <<>> THEN FALSE
              ELSE IF u[Len(u)] # v[Len(v)] THEN u[Len(u)] < v[Len(v)]
              ELSE BigLess(SubSeq(u, 1, Len(u) - 1), SubSeq(v, 1, Len(v) - 1)),
          a, b)

RECURSIVE BigTrim(_)
BigTrim(a) ==
    With1(LAMBDA u : IF u = <<>> \/ u[Len(u)] # 0 THEN u ELSE BigTrim(SubSeq(u, 1, Len(u) - 1)),
          a)

\* a - b - c for a >= b + c, before the leading zeros are trimmed
RECURSIVE BigBorrow(_, _, _)
BigBorrow(a, b, c) ==
    With3(LAMBDA u, v, w :
              IF u = <<>> THEN <<>>
              ELSE IF Head(u) - Digit(v) - w < 0
                   THEN <<Head(u) - Digit(v) - w + 10000>> \o BigBorrow(Tail(u), Rest(v), 1)
                   ELSE <<Head(u) - Digit(v) - w>> \o BigBorrow(Tail(u), Rest(v), 0),
          a, b, c)

BigSub(a, b) == BigTrim(BigBorrow(a, b, 0))

\* the digits of the quotient of c * 10000^Len(a) + a by a k of at most
\* 10000, for c < k
RECURSIVE BigQuotient(_, _, _)
BigQuotient(a, k, c) ==
    With3(LAMBDA u, v, w :
              IF u = <<>> THEN <<>>
              ELSE BigQuotient(SubSeq(u, 1, Len(u) - 1), v, (w * 10000 + u[Len(u)]) % v)
                       \o <<(w * 10000 + u[Len(u)]) \div v>>,
          a, k, c)

BigDiv(a, k) == BigTrim(BigQuotient(a, k, 0))

QZero == [neg |-> FALSE, n |-> <<>>, d |-> Big(1)]

\* the number of the fraction x = <<n, d>>
QFrac(x) == With1(LAMBDA u : [neg |-> u[1] < 0, n |-> Big(Abs(u[1])), d |-> Big(u[2])], x)

QInt(n) == QFrac(Float(n))

\* the greatest of 10000, 625, 16, 5 and 2 that divides both digits a and
\* b, or 1
Shared(a, b) ==
    IF a = 0 /\ b = 0 THEN 10000
    ELSE IF a % 625 = 0 /\ b % 625 = 0 THEN 625
    ELSE IF a % 16 = 0 /\ b % 16 = 0 THEN 16
    ELSE IF a % 5 = 0 /\ b % 5 = 0 THEN 5
    ELSE IF a % 2 = 0 /\ b % 2 = 0 THEN 2
    ELSE 1

\* x with the factors 2 and 5 that n and d share cancelled, which keeps the
\* digits of sums of decimal fractions few; the number is the same
RECURSIVE QNorm(_)
QNorm(x) ==
    With1(LAMBDA u :
              IF u.n = <<>> THEN QZero
              ELSE With1(LAMBDA k :
                             IF k = 1 THEN u
                             ELSE QNorm([neg |-> u.neg, n |-> BigDiv(u.n, k),
                                         d |-> BigDiv(u.d, k)]),
                         Shared(Head(u.n), Head(u.d))),
          x)

QMul(x, y) ==
    With2(LAMBDA u, v :
              IF u.n = <<>> \/ v.n = <<>> THEN QZero
              ELSE QNorm([neg |-> u.neg # v.neg, n |-> BigMul(u.n, v.n),
                          d |-> BigMul(u.d, v.d)]),
          x, y)

QDiv(x, y) == QMul(x, With1(LAMBDA v : [neg |-> v.neg, n |-> v.d, d |-> v.n], y))

QNeg(x) == With1(LAMBDA u : IF u.n = <<>> THEN u ELSE [u EXCEPT !.neg = ~u.neg], x)

\* a/d + b/d for a of sign s and b of sign t
QSigned(a, s, b, t, d) ==
    IF s = t THEN [neg |-> s, n |-> BigAdd(a, b), d |-> d]
    ELSE IF a = b THEN QZero
    ELSE IF BigLess(a, b) THEN [neg |-> t, n |-> BigSub(b, a), d |-> d]
    ELSE [neg |-> s, n |-> BigSub(a, b), d |-> d]

QAdd(x, y) ==
    With2(LAMBDA u, v :
              QNorm(With3(LAMBDA a, b, d : QSigned(a, u.neg, b, v.neg, d),
                          BigMul(u.n, v.d), BigMul(v.n, u.d), BigMul(u.d, v.d))),
          x, y)

QSub(x, y) == QAdd(x, QNeg(y))

\* x = y as numbers
QEq(x, y) ==
    With2(LAMBDA u, v : u.neg = v.neg /\ BigMul(u.n, v.d) = BigMul(v.n, u.d), x, y)

QLess(x, y) == QSub(x, y).neg

-----------------------------------------------------------------------------
(* The export and its authorities.                                         *)

Swansea == "City  and County of Swansea "
Neath == "Neath Port Talbot CBC"
Powys == "Powys County Council"
Cardiff == "Cardiff County Council"
Vale == "Vale of Glamorgan Council"

\* the authorities in the order groupby('Authority') and sort('Authority')
\* put them (lexicographic)
AuthorityOrder == <<Cardiff, Swansea, Neath, Powys, Vale>>

Rank(a) == CHOOSE i \in 1..Len(AuthorityOrder) : AuthorityOrder[i] = a

RECURSIVE SortedAuthorities(_)
SortedAuthorities(S) ==
    IF S = {} THEN <<>>
    ELSE LET a == CHOOSE x \in S : \A y \in S : Rank(x) <= Rank(y)
         IN  <<a>> \o SortedAuthorities(S \ {a})

PrePeriod == "Jan 14 - Mar 14"
Quarter1 == "Apr 14 - Jun 14"
Quarter2 == "Jul 14 - Sep 14"

\* a period of the export raw_jan14-sep15.xls after the reporting year
PostPeriod == "Apr 15 - Jun 15"

Record(a, p, q, col, row, d) ==
    [Authority |-> a, Period |-> p, QuestionNumber |-> q, ColText |-> col,
     RowText |-> row, Data |-> d]

Key(r) == <<r.Authority, r.Period, r.QuestionNumber, r.ColText, r.RowText>>

\* get_data: the sheet without the period 'Jan 14 - Mar 14'
get_data(rawt) == {r \in rawt : r.Period # PrePeriod}

RECURSIVE SumData(_)
SumData(S) ==
    IF S = {} THEN 0
    ELSE LET r == CHOOSE x \in S : TRUE IN r.Data + SumData(S \ {r})

\* pivot_table(values='Data', index=['Authority','Period'], columns='RowText')
\* followed by groupby('Authority').agg(np.sum): the cell of authority a in
\* column row is the sum of a's quarterly values, and NaN when a has none.
\* The columns a caller selects are taken to exist in the pivot.
la_cell(recs, a, row) ==
    LET S == {r \in recs : r.Authority = a /\ r.RowText = row}
    IN  IF S = {} THEN NaN ELSE Float(SumData(S))

\* the Authority column after groupby('Authority').agg(np.sum).reset_index()
la_authorities(recs) == SortedAuthorities({r.Authority : r \in recs})

\* DataFrame.sum(axis=1) over the numeric columns left after the drop: NaN
\* cells are skipped; a row of NaN cells only sums to NaN or to 0, depending
\* on the pandas build (allnan).
row_sum(recs, a, dropped, allnan) ==
    LET S == {r \in recs : r.Authority = a /\ r.RowText \notin dropped}
    IN  IF S = {} THEN allnan ELSE Float(SumData(S))

AllNaNSums == {NaN, Float(0)}

YesNo == {"Yes", "No"}
Methods == {"WRAP", "Eunomia"}
DryRecs == {"Sum", "Comingled"}

DRSMaterials ==
    {"DRS Glass Bottles", "DRS Plastic Bottles", "DRS Ferrous Cans",
     "DRS Aluminium Cans", "DRS Beverage Cartons"}

\* the row of authority a in table t (a sequence of rows), if any
HasRow(t, a) == \E i \in 1..Len(t) : t[i].Authority = a
RowOf(t, a) == t[CHOOSE i \in 1..Len(t) : t[i].Authority = a]

-----------------------------------------------------------------------------
(* Household kerbside recycling.                                           *)

RecyclingCol == "Tonnage collected for recycling"
ReuseCol == "Tonnage Collected for Reuse"

hhkerb_dropped == {"Green garden waste only", "Mixed garden and food waste", "Waste food only"}

hhkerb_columns ==
    {"Mixed glass", "Mixed Plastic Bottles", "Plastics", "Steel cans",
     "Aluminium cans", "Mixed cans", "Composite food and beverage cartons",
     "Co mingled materials", "sum_dry_rec"}

get_hhkerb_rec_qtr(rawt) ==
    {r \in get_data(rawt) : r.QuestionNumber = "Q010" /\ r.ColText = RecyclingCol}

get_hhkerb_rec_la(rawt, allnan) ==
    LET qtr == get_hhkerb_rec_qtr(rawt)
        auths == la_authorities(qtr)
    IN  [i \in 1..Len(auths) |->
            [Authority |-> auths[i],
             v |-> [c \in hhkerb_columns |->
                      IF c = "sum_dry_rec"
                      THEN row_sum(qtr, auths[i], hhkerb_dropped, allnan)
                      ELSE la_cell(qtr, auths[i], c)]]]

\* the reuse rows that get_hhkerb_recreu_la adds to sum_dry_rec
hhkerb_reu(rawt) ==
    {r \in get_data(rawt) : /\ r.QuestionNumber = "Q010"
                            /\ r.ColText = ReuseCol
                            /\ r.Data > 0}

\* the left merge of a per-authority sum onto a table row: NaN when the
\* authority has no row in the right-hand table
merged_sum(recs, a) ==
    LET S == {r \in recs : r.Authority = a}
    IN  IF S = {} THEN NaN ELSE Float(SumData(S))

get_hhkerb_recreu_la_EveryColumn(rawt, allnan) ==
    LET hhkerb_rec_la == get_hhkerb_rec_la(rawt, allnan)
        reu == hhkerb_reu(rawt)
    IN  [i \in 1..Len(hhkerb_rec_la) |->
            LET row == hhkerb_rec_la[i]
                y == replaceNaN(merged_sum(reu, row.Authority), Float(0))
            IN  [row EXCEPT !.v = [c \in hhkerb_columns |-> Add(row.v[c], y)]]]

get_hhkerb_recreu_la(rawt, allnan) ==
    LET hhkerb_rec_la == get_hhkerb_rec_la(rawt, allnan)
        reu == hhkerb_reu(rawt)
    IN  [i \in 1..Len(hhkerb_rec_la) |->
            LET row == hhkerb_rec_la[i]
                y == replaceNaN(merged_sum(reu, row.Authority), Float(0))
            IN  [row EXCEPT !.v["sum_dry_rec"] = Add(@, y)]]

\* the composition ratios of get_hhkerb_rec_drs
hhkerb_rates(method) ==
    [mixed_glass |-> IF method = "Eunomia" THEN Frac(80, 100) ELSE Frac(6564, 10000),
     co_glass    |-> Frac(1599, 10000),
     bottles     |-> Frac(9626, 10000),
     plastics    |-> IF method = "Eunomia" THEN Frac(22, 100) ELSE Frac(6847, 10000),
     swansea     |-> Frac(5738, 10000),
     co_plastics |-> Frac(669, 10000),
     steel       |-> Frac(1953, 10000),
     alum        |-> Frac(9483, 10000),
     mixed_fer   |-> Frac(1453, 10000),
     mixed_alum  |-> Frac(2429, 10000),
     co_fer      |-> Frac(101, 10000),
     co_alum     |-> Frac(169, 10000),
     co_bev      |-> Frac(31, 10000)]

reject_rate(comingled_reject) ==
    IF comingled_reject = "Yes" THEN Frac(8915, 10000) ELSE Float(1)

dry_rec_column(dry_rec) ==
    IF dry_rec = "Sum" THEN "sum_dry_rec" ELSE "Co mingled materials"

\* hhkerb_rec_drs[dry_rec] * reject_rate * co, the coarsest level
hhkerb_comingled(c, dry, rr, co) == Mul(Mul(c[dry], rr), co)

\* Each column below takes the authority a, its row c of get_hhkerb_rec_la,
\* the ratios k, the dry-recycling column dry and the reject rate rr.

hhkerb_DRS_Glass_Bottles_NoReject(a, c, k, dry, rr) ==
    replaceNaN(Mul(c["Mixed glass"], k.mixed_glass), Mul(c[dry], k.co_glass))

hhkerb_DRS_Glass_Bottles(a, c, k, dry, rr) ==
    replaceNaN(Mul(c["Mixed glass"], k.mixed_glass),
               hhkerb_comingled(c, dry, rr, k.co_glass))

hhkerb_DRS_Plastic_Bottles_AnySwansea(a, c, k, dry, rr) ==
    replaceNaN(Mul(c["Plastics"], k.swansea), hhkerb_comingled(c, dry, rr, k.co_plastics))

hhkerb_DRS_Plastic_Bottles(a, c, k, dry, rr) ==
    LET bottles == Mul(c["Mixed Plastic Bottles"], k.bottles)
        plastics == replaceNaN(bottles, Mul(c["Plastics"], k.plastics))
        where == IF a = Swansea THEN Mul(c["Plastics"], k.swansea) ELSE plastics
    IN  replaceNaN(where, hhkerb_comingled(c, dry, rr, k.co_plastics))

\* np.where(Mixed cans notnull & Authority is neither Neath Port Talbot nor
\* Powys, Mixed cans * mixed, fine), then the co-mingled level
hhkerb_cans_NoExclusion(a, c, fine, mixed, co, dry, rr) ==
    LET where == IF notnull(c["Mixed cans"]) THEN Mul(c["Mixed cans"], mixed) ELSE fine
    IN  replaceNaN(where, hhkerb_comingled(c, dry, rr, co))

hhkerb_cans(a, c, fine, mixed, co, dry, rr) ==
    LET where == IF notnull(c["Mixed cans"]) /\ a # Neath /\ a # Powys
                 THEN Mul(c["Mixed cans"], mixed)
                 ELSE fine
    IN  replaceNaN(where, hhkerb_comingled(c, dry, rr, co))

hhkerb_DRS_Ferrous_Cans(a, c, k, dry, rr) ==
    hhkerb_cans(a, c, Mul(c["Steel cans"], k.steel), k.mixed_fer, k.co_fer, dry, rr)

hhkerb_DRS_Aluminium_Cans(a, c, k, dry, rr) ==
    hhkerb_cans(a, c, Mul(c["Aluminium cans"], k.alum), k.mixed_alum, k.co_alum, dry, rr)

hhkerb_DRS_Beverage_Cartons(a, c, k, dry, rr) ==
    replaceNaN(c["Composite food and beverage cartons"],
               hhkerb_comingled(c, dry, rr, k.co_bev))

get_hhkerb_rec_drs(rawt, reuse, method, dry_rec, comingled_reject, allnan) ==
    LET la == IF reuse = "Yes" THEN get_hhkerb_recreu_la(rawt, allnan)
              ELSE get_hhkerb_rec_la(rawt, allnan)
        rr == reject_rate(comingled_reject)
        k == hhkerb_rates(method)
        dry == dry_rec_column(dry_rec)
    IN  [i \in 1..Len(la) |->
            LET a == la[i].Authority
                c == la[i].v
            IN  [Authority |-> a,
                 v |-> [m \in DRSMaterials |->
                    CASE m = "DRS Glass Bottles" -> hhkerb_DRS_Glass_Bottles(a, c, k, dry, rr)
                      [] m = "DRS Plastic Bottles" -> hhkerb_DRS_Plastic_Bottles(a, c, k, dry, rr)
                      [] m = "DRS Ferrous Cans" -> hhkerb_DRS_Ferrous_Cans(a, c, k, dry, rr)
                      [] m = "DRS Aluminium Cans" -> hhkerb_DRS_Aluminium_Cans(a, c, k, dry, rr)
                      [] m = "DRS Beverage Cartons" -> hhkerb_DRS_Beverage_Cartons(a, c, k, dry, rr)]]]

-----------------------------------------------------------------------------
(* Household kerbside residual waste.                                      *)

RejectedCol == "Tonnage collected for recycling but actually rejected/disposed"
RegularCollection == "Collected household waste : Regular Collection"

\* raw[(QuestionNumber == 'Q023') & (ColText == 'Tonnage')], the rows of the
\* residual pivot shared by the residual and litter extractors
res_qtr(rawt) == {r \in get_data(rawt) : r.QuestionNumber = "Q023" /\ r.ColText = "Tonnage"}

\* groupby('Authority').agg(np.sum) of one column of the residual pivot
res_la(rawt, column) ==
    LET res == res_qtr(rawt)
        auths == la_authorities(res)
    IN  [i \in 1..Len(auths) |->
            [Authority |-> auths[i],
             v |-> [c \in {column} |-> la_cell(res, auths[i], c)]]]

\* the left merge of the rejected tonnage rej onto the residual table and
\* the addition of column 'Data' (NaN replaced by 0) to column
resrej_la_NoZeroFill(la, rej, column) ==
    [i \in 1..Len(la) |->
        LET data == merged_sum(rej, la[i].Authority)
        IN  [la[i] EXCEPT !.v[column] = Add(@, data)]]

resrej_la(la, rej, column) ==
    [i \in 1..Len(la) |->
        LET data == replaceNaN(merged_sum(rej, la[i].Authority), Float(0))
        IN  [la[i] EXCEPT !.v[column] = Add(@, data)]]

\* a residual DRSMaterialTable: the tonnage column times one rate a material
res_drs(la, column, rates) ==
    [i \in 1..Len(la) |->
        [Authority |-> la[i].Authority,
         v |-> [m \in DRSMaterials |-> Mul(la[i].v[column], rates[m])]]]

get_hhkerb_res_la(rawt) == res_la(rawt, RegularCollection)

hhkerb_rej(rawt) ==
    {r \in get_data(rawt) : /\ r.QuestionNumber = "Q010"
                            /\ r.ColText = RejectedCol
                            /\ r.Data > 0}

get_hhkerb_resrej_la(rawt) ==
    resrej_la(get_hhkerb_res_la(rawt), hhkerb_rej(rawt), RegularCollection)

hhkerb_res_rates(method) ==
    [m \in DRSMaterials |->
        CASE m = "DRS Glass Bottles" ->
                IF method = "Eunomia" THEN Frac(215, 10000) ELSE Frac(204, 10000)
          [] m = "DRS Plastic Bottles" ->
                IF method = "Eunomia" THEN Frac(6, 1000) ELSE Frac(151, 10000)
          [] m = "DRS Ferrous Cans" -> Frac(1554, 1000000)
          [] m = "DRS Aluminium Cans" -> Frac(3255, 1000000)
          [] m = "DRS Beverage Cartons" -> Frac(37, 10000)]

get_hhkerb_res_drs(rawt, reject, method) ==
    res_drs(IF reject = "Yes" THEN get_hhkerb_resrej_la(rawt) ELSE get_hhkerb_res_la(rawt),
            RegularCollection, hhkerb_res_rates(method))

-----------------------------------------------------------------------------
(* HWRCs recycling.                                                        *)

HwrcsReuseCol == "Tonnage collected for reuse"

hwrcs_dropped == {"Green garden waste only"}

\* drslist without 'Authority'
drslist ==
    {"Brown glass", "Clear glass", "Green glass", "Mixed glass",
     "Mixed Plastic Bottles", "Plastics", "Aluminium cans", "Steel cans",
     "Mixed cans", "Composite food and beverage cartons",
     "Co mingled materials", "sum_dry_rec"}

hwrcs_rec_qtr(rawt, question) ==
    {r \in get_data(rawt) : r.QuestionNumber = question /\ r.ColText = RecyclingCol}

\* the row of authority a in the per-authority table of one sub-source after
\* replace(np.NaN, 0); an authority the outer merge added has NaN cells
\* only, hence zeros
hwrcs_sub_row(qtr, a) ==
    [c \in drslist |->
        replaceNaN(IF c = "sum_dry_rec" THEN row_sum(qtr, a, hwrcs_dropped, NaN)
                   ELSE la_cell(qtr, a, c),
                   Float(0))]

\* hwrcs_rec_ca_la + hwrcs_rec_bring_la adds the two frames by row label
\* 0, 1, ...: row i of the CA table meets row i of the bring table (which the
\* outer merge extended by the CA authorities and sort('Authority') ordered);
\* a row label only one frame has gives NaN.  Authority is then taken from
\* the bring table.
get_hwrcs_rec_la(rawt) ==
    LET ca == hwrcs_rec_qtr(rawt, "Q016")
        bring == hwrcs_rec_qtr(rawt, "Q017")
        ca_auths == la_authorities(ca)
        bring_auths == SortedAuthorities({r.Authority : r \in ca \cup bring})
    IN  [i \in 1..Len(bring_auths) |->
            [Authority |-> bring_auths[i],
             v |-> [c \in drslist |->
                      IF i <= Len(ca_auths)
                      THEN Add(hwrcs_sub_row(ca, ca_auths[i])[c],
                               hwrcs_sub_row(bring, bring_auths[i])[c])
                      ELSE NaN]]]

hwrcs_reu(rawt) ==
    {r \in get_data(rawt) : /\ r.QuestionNumber \in {"Q016", "Q017"}
                            /\ r.ColText = HwrcsReuseCol
                            /\ r.Data > 0}

\* the outer merge of the two reuse sums, then the left merge onto
\* get_hwrcs_rec_la; merge.replace(np.NaN, 0) turns every NaN cell of the
\* merged frame into 0 before the sums are added
get_hwrcs_recreu_la(rawt) ==
    LET hwrcs_rec_la == get_hwrcs_rec_la(rawt)
        reu == hwrcs_reu(rawt)
    IN  [i \in 1..Len(hwrcs_rec_la) |->
            LET row == hwrcs_rec_la[i]
                y == replaceNaN(merged_sum(reu, row.Authority), Float(0))
            IN  [Authority |-> row.Authority,
                 v |-> [c \in drslist |->
                          IF c = "sum_dry_rec"
                          THEN Add(replaceNaN(row.v[c], Float(0)), y)
                          ELSE replaceNaN(row.v[c], Float(0))]]]

\* the zero-triggered cascade of one authority's row c of get_hwrcs_rec_la
hwrcs_rec_drs_row_NaNTrigger(c, dry) ==
    LET glass == Add(Add(Add(Mul(c["Mixed glass"], Frac(75, 100)),
                             Mul(c["Clear glass"], Frac(35, 100))),
                         c["Brown glass"]),
                     c["Green glass"])
        co(rate) == Mul(c[dry], rate)
    IN  [m \in DRSMaterials |->
          CASE m = "DRS Glass Bottles" -> replaceNaN(glass, co(Frac(245, 10000)))
            [] m = "DRS Plastic Bottles" ->
                  replaceNaN(replaceNaN(c["Mixed Plastic Bottles"],
                                    Mul(c["Plastics"], Frac(50, 100))),
                           co(Frac(16528, 100000)))
            [] m = "DRS Ferrous Cans" ->
                  replaceNaN(replaceNaN(c["Steel cans"], Mul(c["Mixed cans"], Frac(80, 100))),
                           co(Frac(1123, 10000)))
            [] m = "DRS Aluminium Cans" ->
                  replaceNaN(replaceNaN(c["Aluminium cans"], Mul(c["Mixed cans"], Frac(20, 100))),
                           co(Frac(379, 10000)))
            [] m = "DRS Beverage Cartons" ->
                  replaceNaN(c["Composite food and beverage cartons"], co(Frac(669, 100000)))]

hwrcs_rec_drs_row(c, dry) ==
    LET glass == Add(Add(Add(Mul(c["Mixed glass"], Frac(75, 100)),
                             Mul(c["Clear glass"], Frac(35, 100))),
                         c["Brown glass"]),
                     c["Green glass"])
        co(rate) == Mul(c[dry], rate)
    IN  [m \in DRSMaterials |->
          CASE m = "DRS Glass Bottles" -> replace0(glass, co(Frac(245, 10000)))
            [] m = "DRS Plastic Bottles" ->
                  replace0(replace0(c["Mixed Plastic Bottles"],
                                    Mul(c["Plastics"], Frac(50, 100))),
                           co(Frac(16528, 100000)))
            [] m = "DRS Ferrous Cans" ->
                  replace0(replace0(c["Steel cans"], Mul(c["Mixed cans"], Frac(80, 100))),
                           co(Frac(1123, 10000)))
            [] m = "DRS Aluminium Cans" ->
                  replace0(replace0(c["Aluminium cans"], Mul(c["Mixed cans"], Frac(20, 100))),
                           co(Frac(379, 10000)))
            [] m = "DRS Beverage Cartons" ->
                  replace0(c["Composite food and beverage cartons"], co(Frac(669, 100000)))]

\* reuse is 'Yes' compares a string literal by identity; the interned
\* literal of the caller makes it the comparison reuse == 'Yes'
get_hwrcs_rec_drs(rawt, reuse, dry_rec) ==
    LET la == IF reuse = "Yes" THEN get_hwrcs_recreu_la(rawt) ELSE get_hwrcs_rec_la(rawt)
    IN  [i \in 1..Len(la) |->
            [Authority |-> la[i].Authority,
             v |-> hwrcs_rec_drs_row(la[i].v, dry_rec_column(dry_rec))]]

-----------------------------------------------------------------------------
(* HWRCs residual waste.                                                   *)

HwrcsRejectedCol == "Tonnage collected for recycling but actually rejected / disposed"
CivicAmenity == "Civic amenity sites waste : Household"

get_hwrcs_res_la(rawt) == res_la(rawt, CivicAmenity)

hwrcs_rej(rawt) ==
    {r \in get_data(rawt) : /\ r.QuestionNumber = "Q016"
                            /\ r.ColText = HwrcsRejectedCol
                            /\ r.Data > 0}

get_hwrcs_resrej_la(rawt) ==
    resrej_la(get_hwrcs_res_la(rawt), hwrcs_rej(rawt), CivicAmenity)

hwrcs_res_rates ==
    [m \in DRSMaterials |->
        CASE m = "DRS Glass Bottles" -> Frac(11665, 1000000)
          [] m = "DRS Plastic Bottles" -> Frac(66, 10000)
          [] m = "DRS Ferrous Cans" -> Frac(1824, 1000000)
          [] m = "DRS Aluminium Cans" -> Frac(248, 100000)
          [] m = "DRS Beverage Cartons" -> Frac(7, 10000)]

get_hwrcs_res_drs(rawt, reject) ==
    res_drs(IF reject = "Yes" THEN get_hwrcs_resrej_la(rawt) ELSE get_hwrcs_res_la(rawt),
            CivicAmenity, hwrcs_res_rates)

-----------------------------------------------------------------------------
(* Litter residual.                                                        *)

StreetCleaning == "Collected household waste : Street Cleaning"
Flytipping == "Waste Arising from clearance of fly-tipped materials"

\* merge['Litter'] of one row: street cleaning / 2 - fly-tipping
Litter_NotHalved(street, fly) == Sub(street, fly)

Litter(street, fly) == Sub(Div(street, Float(2)), fly)

get_lit_res_la(rawt) ==
    LET res == res_qtr(rawt)
        auths == la_authorities(res)
    IN  [i \in 1..Len(auths) |->
            LET street == replaceNaN(la_cell(res, auths[i], StreetCleaning), Float(0))
                fly == replaceNaN(la_cell(res, auths[i], Flytipping), Float(0))
            IN  [Authority |-> auths[i],
                 v |-> [c \in {StreetCleaning, Flytipping, "Litter"} |->
                          CASE c = StreetCleaning -> street
                            [] c = Flytipping -> fly
                            [] c = "Litter" -> Litter(street, fly)]]]

lit_res_rates ==
    [m \in DRSMaterials |->
        CASE m = "DRS Glass Bottles" -> Frac(688, 10000)
          [] m = "DRS Plastic Bottles" -> Frac(712, 10000)
          [] m = "DRS Ferrous Cans" -> Frac(183, 10000)
          [] m = "DRS Aluminium Cans" -> Frac(369, 10000)
          [] m = "DRS Beverage Cartons" -> Frac(45, 10000)]

get_lit_res_drs(rawt) == res_drs(get_lit_res_la(rawt), "Litter", lit_res_rates)

-----------------------------------------------------------------------------
(* Population and the commercial streams.                                  *)

PopulationRow == "Population of Authority"
CommercialIndustrial == "Collected non-household waste : Commercial & Industrial"

com_rec_columns ==
    {"Mixed glass", "Mixed Plastic Bottles", "Plastics", "Mixed cans",
     "Co mingled materials"}

\* the rows of a table sorted by Authority; rows of one authority keep the
\* order of their population
RECURSIVE SortedPop(_)
SortedPop(S) ==
    IF S = {} THEN <<>>
    ELSE LET p == CHOOSE x \in S : \A y \in S :
                     \/ Rank(x.Authority) < Rank(y.Authority)
                     \/ Rank(x.Authority) = Rank(y.Authority) /\ x.Population <= y.Population
         IN  <<p>> \o SortedPop(S \ {p})

\* pop_qtr[['Authority','Data']].drop_duplicates(): one row for each
\* distinct pair of an authority and a population figure
get_pop(rawt) ==
    LET pop_qtr == {r \in get_data(rawt) :
                       r.QuestionNumber = "Q001" /\ r.RowText = PopulationRow}
    IN  SortedPop({[Authority |-> r.Authority, Population |-> r.Data] : r \in pop_qtr})

get_com_rec_qtr(rawt) ==
    {r \in get_data(rawt) : r.QuestionNumber = "Q011" /\ r.ColText = RecyclingCol}

get_com_rec_la(rawt) ==
    LET qtr == get_com_rec_qtr(rawt)
        auths == la_authorities(qtr)
    IN  [i \in 1..Len(auths) |->
            [Authority |-> auths[i],
             v |-> [c \in com_rec_columns |-> la_cell(qtr, auths[i], c)]]]

get_com_res_la(rawt) == res_la(rawt, CommercialIndustrial)

\* the cell of column c that the left merge of table la onto the population
\* row of authority a gives: NaN when la has no row for a
merged_cell(la, a, c) == IF HasRow(la, a) THEN RowOf(la, a).v[c] ELSE NaN

RECURSIVE SortedValues(_)
SortedValues(xs) ==
    IF xs = <<>> THEN <<>>
    ELSE LET i == CHOOSE j \in 1..Len(xs) : \A k \in 1..Len(xs) : ~Less(xs[k], xs[j])
         IN  <<xs[i]>> \o
             SortedValues([j \in 1..(Len(xs) - 1) |-> IF j < i THEN xs[j] ELSE xs[j + 1]])

\* Series.median(): NaN cells are skipped; the middle value, or the mean of
\* the two middle values of an even count; NaN when no cell is left
median_Lower(xs) ==
    LET ys == SortedValues(SelectSeq(xs, notnull))
        n == Len(ys)
    IN  IF n = 0 THEN NaN ELSE ys[(n + 1) \div 2]

median(xs) ==
    LET ys == SortedValues(SelectSeq(xs, notnull))
        n == Len(ys)
    IN  IF n = 0 THEN NaN
        ELSE IF n % 2 = 1 THEN ys[(n + 1) \div 2]
        ELSE Div(Add(ys[n \div 2], ys[n \div 2 + 1]), Float(2))

\* merge['Estimated ' + drs]: Population * median(merge[drs] / Population),
\* one value a row of the population table pop; la is the merged table
Estimated(pop, la, c) ==
    LET rate == [i \in 1..Len(pop) |->
                    Div(merged_cell(la, pop[i].Authority, c), Float(pop[i].Population))]
        m == median(rate)
    IN  [i \in 1..Len(pop) |-> Mul(Float(pop[i].Population), m)]

\* merge['Combined ' + drs]
Combined(pop, la, c) ==
    LET est == Estimated(pop, la, c)
    IN  [i \in 1..Len(pop) |-> replaceNaN(merged_cell(la, pop[i].Authority, c), est[i])]

com_res_rates ==
    [m \in DRSMaterials |->
        CASE m = "DRS Glass Bottles" -> Frac(216, 10000)
          [] m = "DRS Plastic Bottles" -> Frac(234, 10000)
          [] m = "DRS Ferrous Cans" -> Frac(68, 10000)
          [] m = "DRS Aluminium Cans" -> Frac(32, 10000)
          [] m = "DRS Beverage Cartons" -> Frac(28, 10000)]

get_com_res_drs(rawt) ==
    LET pop == get_pop(rawt)
        combined == Combined(pop, get_com_res_la(rawt), CommercialIndustrial)
    IN  [i \in 1..Len(pop) |->
            [Authority |-> pop[i].Authority,
             v |-> [m \in DRSMaterials |-> Mul(combined[i], com_res_rates[m])]]]

get_com_rec_drs_int(rawt) ==
    LET pop == get_pop(rawt)
        la == get_com_rec_la(rawt)
        glass == Combined(pop, la, "Mixed glass")
        cans == Combined(pop, la, "Mixed cans")
        plastics == Estimated(pop, la, "Plastics")
        com_res_drs == get_com_res_drs(rawt)
    IN  [i \in 1..Len(pop) |->
            LET a == pop[i].Authority
            IN  [Authority |-> a,
                 v |-> [m \in DRSMaterials |->
                    CASE m = "DRS Glass Bottles" -> Mul(glass[i], Frac(75, 100))
                      [] m = "DRS Plastic Bottles" ->
                            replaceNaN(replaceNaN(merged_cell(la, a, "Mixed Plastic Bottles"),
                                                  Mul(merged_cell(la, a, "Plastics"), Frac(5, 10))),
                                       Mul(plastics[i], Frac(5, 10)))
                      [] m = "DRS Ferrous Cans" -> Mul(cans[i], Frac(8, 10))
                      [] m = "DRS Aluminium Cans" -> Mul(cans[i], Frac(2, 10))
                      [] m = "DRS Beverage Cartons" ->
                            Mul(com_res_drs[i].v["DRS Beverage Cartons"],
                                Div(Frac(3, 10), Frac(7, 10)))]]]

\* get_com_rec_drs_zws: the commercial residual table times the ratio of the
\* recycling rate to the residual rate of each material; nothing is exported
zws_ratios_Difference ==
    [m \in DRSMaterials |->
        CASE m = "DRS Glass Bottles" -> Sub(Frac(6, 10), Frac(4, 10))
          [] m = "DRS Plastic Bottles" -> Sub(Frac(3, 10), Frac(7, 10))
          [] m = "DRS Ferrous Cans" -> Sub(Frac(4, 10), Frac(6, 10))
          [] m = "DRS Aluminium Cans" -> Sub(Frac(4, 10), Frac(6, 10))
          [] m = "DRS Beverage Cartons" -> Sub(Frac(3, 10), Frac(7, 10))]

zws_ratios ==
    [m \in DRSMaterials |->
        CASE m = "DRS Glass Bottles" -> Div(Frac(6, 10), Frac(4, 10))
          [] m = "DRS Plastic Bottles" -> Div(Frac(3, 10), Frac(7, 10))
          [] m = "DRS Ferrous Cans" -> Div(Frac(4, 10), Frac(6, 10))
          [] m = "DRS Aluminium Cans" -> Div(Frac(4, 10), Frac(6, 10))
          [] m = "DRS Beverage Cartons" -> Div(Frac(3, 10), Frac(7, 10))]

get_com_rec_drs_zws(rawt) ==
    LET com_res_drs == get_com_res_drs(rawt)
    IN  [i \in 1..Len(com_res_drs) |->
            [Authority |-> com_res_drs[i].Authority,
             v |-> [m \in DRSMaterials |-> Mul(com_res_drs[i].v[m], zws_ratios[m])]]]

-----------------------------------------------------------------------------
(* The reference weights of the containers sold in Wales, in thousand      *)
(* tonnes.                                                                 *)

PetSizes == {Frac(1, 2), Frac(3, 4), Frac(3, 2)}

\* ave_pet_size after line 744, were the argument kept
reassigned_ave_pet_size_Argument(ave_pet_size) == ave_pet_size

\* ave_pet_size = 0.5 (line 744): the argument is overwritten before its
\* only use
reassigned_ave_pet_size(ave_pet_size) == Frac(5, 10)

\* the list [glass, plastic, ferrous, aluminium, cartons, total, 0]
get_total_weight_drs_list(ave_pet_size) ==
    LET scot_wgt_list == <<Frac(1648, 10), Frac(386, 10), Frac(52, 10), Frac(89, 10),
                           Float(5), Frac(2225, 10), Float(0)>>
        scot_pop == 5347600
        wales_pop == 3092000
        uk_pop == 64596800
        wales_scot_ratio == QFrac(Frac(wales_pop, scot_pop))
        wales_uk_ratio == QFrac(Frac(wales_pop, uk_pop))
        ave_kg_list == <<Frac(378, 1000), Frac(33, 1000), Frac(56, 1000), Frac(35, 1000),
                         Frac(17, 1000), Frac(21, 1000)>>
        wales_gla_wgt == QMul(QFrac(scot_wgt_list[1]), wales_scot_ratio)
        \* 14800000000 * 0.69
        uk_pet_vol == QMul(QMul(QInt(148), QInt(100000000)), QFrac(Frac(69, 100)))
        wales_pet_vol == QMul(uk_pet_vol, wales_uk_ratio)
        wales_pet_num == QDiv(wales_pet_vol, QFrac(reassigned_ave_pet_size(ave_pet_size)))
        wales_pet_wgt == QDiv(QMul(wales_pet_num, QFrac(ave_kg_list[2])), QInt(1000000))
        \* 4000000000
        uk_hdpe_num == QMul(QInt(4), QInt(1000000000))
        wales_hdpe_num == QMul(uk_hdpe_num, wales_uk_ratio)
        wales_hdpe_wgt == QDiv(QMul(wales_hdpe_num, QFrac(ave_kg_list[3])), QInt(1000000))
        wales_pla_wgt == QAdd(wales_pet_wgt, wales_hdpe_wgt)
        \* 9800000000
        uk_cans_num == QMul(QInt(98), QInt(100000000))
        wales_cans_num == QMul(uk_cans_num, wales_uk_ratio)
        wales_fer_num == QMul(wales_cans_num, QFrac(Frac(22, 100)))
        wales_alum_num == QMul(wales_cans_num, QFrac(Frac(78, 100)))
        wales_fer_wgt == QDiv(QMul(wales_fer_num, QFrac(ave_kg_list[4])), QInt(1000000))
        wales_alum_wgt == QDiv(QMul(wales_alum_num, QFrac(ave_kg_list[5])), QInt(1000000))
        uk_car_wgt == 60
        wales_car_wgt == QMul(QInt(uk_car_wgt), wales_uk_ratio)
        wales_total_wgt == QAdd(QAdd(QAdd(QAdd(wales_gla_wgt, wales_pla_wgt), wales_fer_wgt),
                                     wales_alum_wgt), wales_car_wgt)
    IN  <<wales_gla_wgt, wales_pla_wgt, wales_fer_wgt, wales_alum_wgt, wales_car_wgt,
          wales_total_wgt, QZero>>

-----------------------------------------------------------------------------
(* get_massflow_baseline: the seven streams summed over the authorities,   *)
(* in thousand tonnes, beside the reference weights.                       *)

stream_list ==
    <<"Household Kerbside Recycling", "Household Kerbside Residual", "HWRCs Recycling",
      "HWRCs Residual", "Commercial Recycling", "Commercial Residual", "Litter Residual">>

Leftover == "Remains in Environment (leftover)"
TotalWeight == "Total Weight in Thousand Tonnes"

drs_list ==
    <<"DRS Glass Bottles", "DRS Plastic Bottles", "DRS Ferrous Cans", "DRS Aluminium Cans",
      "DRS Beverage Cartons", "Total", "Percent Contribution">>

ComRecMethods == {"Interpolation", "Eunomia"}

RECURSIVE AddCells(_, _, _)
AddCells(t, m, I) ==
    IF I = {} THEN Float(0)
    ELSE LET i == CHOOSE j \in I : TRUE
         IN  Add(t[i].v[m], AddCells(t, m, I \ {i}))

\* t.sum(axis=0, numeric_only=True).div(1000) at material m: NaN cells are
\* skipped, and a column of NaN cells only sums to NaN or to 0 (allnan)
column_sum(t, m, allnan) ==
    LET I == {i \in 1..Len(t) : notnull(t[i].v[m])}
    IN  IF I = {} THEN allnan ELSE Mul(AddCells(t, m, I), Frac(1, 1000))

\* the estimator of commercial recycling were com_rec_method not looked at
com_rec_drs_Interpolation(rawt, com_rec_method) == get_com_rec_drs_int(rawt)

\* lines 790-793: the estimator of commercial recycling
com_rec_drs(rawt, com_rec_method) ==
    IF com_rec_method = "Interpolation" THEN get_com_rec_drs_int(rawt)
    ELSE get_com_rec_drs_zws(rawt)

\* the method of the kerbside residual rates were hhkerb_rec_method passed on
hhkerb_res_method_Passed(hhkerb_rec_method) == hhkerb_rec_method

\* get_hhkerb_res_drs(reject=reject), line 800: method is left at its
\* default
hhkerb_res_method(hhkerb_rec_method) == "WRAP"

\* the tables of the seven streams, in the order of stream_list
stream_tables(rawt, reuse, reject, hhkerb_rec_method, com_rec_method, dry_rec_method, allnan) ==
    <<get_hhkerb_rec_drs(rawt, reuse, hhkerb_rec_method, dry_rec_method, "Yes", allnan),
      get_hhkerb_res_drs(rawt, reject, hhkerb_res_method(hhkerb_rec_method)),
      get_hwrcs_rec_drs(rawt, reuse, dry_rec_method),
      get_hwrcs_res_drs(rawt, reject),
      com_rec_drs(rawt, com_rec_method),
      get_com_res_drs(rawt),
      get_lit_res_drs(rawt)>>

\* the left merge of the sums of table t and baseline.replace(np.NaN, 0):
\* the column of a stream, row by row of drs_list; the rows 'Total' and
\* 'Percent Contribution' match no material
merged(t, allnan) ==
    SubSeq([i \in 1..7 |->
               IF drs_list[i] \in DRSMaterials
               THEN replaceNaN(column_sum(t, drs_list[i], allnan), Float(0))
               ELSE Float(0)], 1, 7)

\* the sum of the cells xs[1..n], added from 0 in their order
RECURSIVE sum(_, _)
sum(xs, n) == IF n = 0 THEN Float(0) ELSE With2(Add, sum(xs, n - 1), xs[n])

\* a total of the column that leaves the cartons out
stream_total_NoCartons(column) == sum(column, 4)

\* sum(baseline[stream]), line 851: the seven cells of the column
stream_total(column) == sum(column, 7)

\* a leftover that is never below zero
leftover_Clamped(total_weight, streams) ==
    With1(LAMBDA x : IF x.neg THEN QZero ELSE x, QSub(total_weight, QFrac(sum(streams, 7))))

\* lines 854-861: the reference weight less the seven streams.  The seven
\* are added first: in exact arithmetic the difference is the same.
leftover(total_weight, streams) == QSub(total_weight, QFrac(sum(streams, 7)))

\* 1.402216, the divisor of lines 866-868
percent_divisor == Frac(1402216, 1000000)

\* lines 849-852 and 864-869 on the column of a stream: the row 'Total'
\* becomes the sum of the column, then the row 'Percent Contribution' the
\* total divided by 1.402216
stream_column(column) ==
    With1(LAMBDA col :
              With1(LAMBDA total :
                        <<col[1], col[2], col[3], col[4], col[5], total,
                          Div(total, percent_divisor)>>,
                    stream_total(col)),
          column)

\* the cells of row i of the columns
across(columns, i) == SubSeq([k \in 1..7 |-> columns[k][i]], 1, 7)

\* lines 854-872: the column of the remains from the columns of the streams
\* and the reference weights
remains(columns, wgt_list) ==
    With1(LAMBDA left : left \o <<QDiv(left[6], QFrac(percent_divisor))>>,
          SubSeq([i \in 1..6 |-> leftover(wgt_list[i], across(columns, i))], 1, 6))

\* the table of the columns of the streams under the reference weights:
\* baseline[c][i] for a column c and the row i of drs_list; the cells of the
\* streams are fractions, those of the reference weight and of the remains
\* numbers beyond 32 bits
baseline(columns, wgt_list) ==
    [c \in {TotalWeight, Leftover} \cup {stream_list[k] : k \in 1..7} |->
        IF c = TotalWeight THEN [wgt_list EXCEPT ![7] = QInt(100)]
        ELSE IF c = Leftover THEN remains(columns, wgt_list)
        ELSE columns[CHOOSE k \in 1..7 : stream_list[k] = c]]

\* wales_wgt_list = get_total_weight_drs_list(), line 827: ave_pet_size takes
\* its default of 0.75
wales_wgt_list == get_total_weight_drs_list(Frac(75, 100))

\* the table returned
get_massflow_baseline(rawt, reuse, reject, hhkerb_rec_method, com_rec_method, dry_rec_method, allnan) ==
    With1(LAMBDA tables :
              With2(baseline,
                    SubSeq([k \in 1..7 |-> stream_column(merged(tables[k], allnan))], 1, 7),
                    wales_wgt_list),
          stream_tables(rawt, reuse, reject, hhkerb_rec_method, com_rec_method,
                        dry_rec_method, allnan))

\* lines 875-881: the name of the baseline file
baseline_name(reuse, reject, hhkerb_rec_method, com_rec_method, dry_rec_method) ==
    "massflow_baseline_" \o reuse \o "reuse_" \o reject \o "reject_" \o hhkerb_rec_method
        \o "_" \o com_rec_method \o "_ddmm.csv"

\* the files a run of get_massflow_baseline writes: those of the estimators
\* it calls and its own
baseline_files(reuse, reject, hhkerb_rec_method, com_rec_method, dry_rec_method) ==
    {"hhkerb_rec_drs_ddmm.csv", "hhkerb_res_drs_ddmm.csv", "hwrcs_rec_drs_ddmm.csv",
     "hwrcs_res_drs_ddmm.csv"}
        \cup (IF reuse = "Yes" THEN {"hwrcs_rec_la_ddmm.csv"} ELSE {})
        \cup (IF com_rec_method = "Interpolation" THEN {"com_rec_drs_ddmm.csv"} ELSE {})
        \cup {baseline_name(reuse, reject, hhkerb_rec_method, com_rec_method, dry_rec_method)}

-----------------------------------------------------------------------------
(* The calls.  A run enters the sheet and calls one function; ret records  *)
(* the function called, its arguments and the table it returned; a call    *)
(* that exports a .csv adds it to files.  A function whose pivot_table     *)
(* would be taken of no rows raises and returns nothing: it is not called. *)

NoArgs == [reuse |-> "-", reject |-> "-", method |-> "-", dry_rec |-> "-",
           comingled_reject |-> "-", com_rec_method |-> "-", ave_pet_size |-> NaN,
           allnan |-> NaN]

NoCall == [fn |-> "none", args |-> NoArgs, out |-> <<>>, raised |-> FALSE]

Returned(fn, args, out) == ret' = [fn |-> fn, args |-> args, out |-> out, raised |-> FALSE]

\* to_csv(op.join(data_dir, name)): the file name holds what the call fn
\* with the arguments args wrote, whatever it held before
to_csv(fs, names, fn, args) ==
    [n \in DOMAIN fs \cup names |->
        IF n \in names THEN [fn |-> fn, args |-> args] ELSE fs[n]]

\* a call of fn that reads the export first: when pd.read_excel raises in
\* get_data the exception ends the call before any to_csv; otherwise the
\* call returns out after writing the files names
Called_WritesFirst(fn, args, out, names) ==
    /\ ret = NoCall
    /\ IF loadable
       THEN Returned(fn, args, out)
       ELSE ret' = [fn |-> fn, args |-> args, out |-> <<>>, raised |-> TRUE]
    /\ files' = to_csv(files, names, fn, args)
    /\ UNCHANGED <<raw, loadable>>

Called(fn, args, out, names) ==
    /\ ret = NoCall
    /\ IF loadable
       THEN /\ Returned(fn, args, out)
            /\ files' = to_csv(files, names, fn, args)
       ELSE /\ ret' = [fn |-> fn, args |-> args, out |-> <<>>, raised |-> TRUE]
            /\ files' = files
    /\ UNCHANGED <<raw, loadable>>

\* the records of the sheet other than the population rows
Tonnages(rawt) == {r \in rawt : r.QuestionNumber # "Q001"}

\* a record of the sheet is entered before the functions are called
Enter(U, max) ==
    /\ ret = NoCall
    /\ loadable
    /\ Cardinality(Tonnages(raw)) < max
    /\ \E r \in U :
          /\ \A s \in raw : Key(s) # Key(r)
          /\ raw' = raw \cup {r}
    /\ UNCHANGED <<ret, files, loadable>>

Call_get_hhkerb_rec_la ==
    /\ loadable => get_hhkerb_rec_qtr(raw) # {}
    /\ \E allnan \in AllNaNSums :
          Called("get_hhkerb_rec_la", [NoArgs EXCEPT !.allnan = allnan],
                 get_hhkerb_rec_la(raw, allnan), {})

Call_get_hhkerb_recreu_la ==
    /\ loadable => get_hhkerb_rec_qtr(raw) # {}
    /\ \E allnan \in AllNaNSums :
          Called("get_hhkerb_recreu_la", [NoArgs EXCEPT !.allnan = allnan],
                 get_hhkerb_recreu_la(raw, allnan), {})

Call_get_hhkerb_rec_drs ==
    /\ loadable => get_hhkerb_rec_qtr(raw) # {}
    /\ \E reuse \in YesNo, method \in Methods, dry_rec \in DryRecs,
          comingled_reject \in YesNo, allnan \in AllNaNSums :
          Called("get_hhkerb_rec_drs",
                 [NoArgs EXCEPT !.reuse = reuse, !.method = method, !.dry_rec = dry_rec,
                                !.comingled_reject = comingled_reject, !.allnan = allnan],
                 get_hhkerb_rec_drs(raw, reuse, method, dry_rec, comingled_reject, allnan),
                 {"hhkerb_rec_drs_ddmm.csv"})

Call_get_hhkerb_resrej_la ==
    /\ loadable => res_qtr(raw) # {}
    /\ Called("get_hhkerb_resrej_la", NoArgs, get_hhkerb_resrej_la(raw), {})

Call_get_hhkerb_res_drs ==
    /\ loadable => res_qtr(raw) # {}
    /\ \E reject \in YesNo, method \in Methods :
          Called("get_hhkerb_res_drs",
                 [NoArgs EXCEPT !.reject = reject, !.method = method],
                 get_hhkerb_res_drs(raw, reject, method),
                 {"hhkerb_res_drs_ddmm.csv"})

hwrcs_rec_loaded(rawt) ==
    hwrcs_rec_qtr(rawt, "Q016") # {} /\ hwrcs_rec_qtr(rawt, "Q017") # {}

Call_get_hwrcs_rec_la ==
    /\ loadable => hwrcs_rec_loaded(raw)
    /\ Called("get_hwrcs_rec_la", NoArgs, get_hwrcs_rec_la(raw), {})

Call_get_hwrcs_recreu_la ==
    /\ loadable => hwrcs_rec_loaded(raw)
    /\ Called("get_hwrcs_recreu_la", NoArgs, get_hwrcs_recreu_la(raw),
              {"hwrcs_rec_la_ddmm.csv"})

Call_get_hwrcs_rec_drs ==
    /\ loadable => hwrcs_rec_loaded(raw)
    /\ \E reuse \in YesNo, dry_rec \in DryRecs :
          Called("get_hwrcs_rec_drs",
                 [NoArgs EXCEPT !.reuse = reuse, !.dry_rec = dry_rec],
                 get_hwrcs_rec_drs(raw, reuse, dry_rec),
                 {"hwrcs_rec_drs_ddmm.csv"}
                     \cup (IF reuse = "Yes" THEN {"hwrcs_rec_la_ddmm.csv"} ELSE {}))

Call_get_hwrcs_resrej_la ==
    /\ loadable => res_qtr(raw) # {}
    /\ Called("get_hwrcs_resrej_la", NoArgs, get_hwrcs_resrej_la(raw), {})

Call_get_hwrcs_res_drs ==
    /\ loadable => res_qtr(raw) # {}
    /\ \E reject \in YesNo :
          Called("get_hwrcs_res_drs", [NoArgs EXCEPT !.reject = reject],
                 get_hwrcs_res_drs(raw, reject), {"hwrcs_res_drs_ddmm.csv"})

Call_get_lit_res_la ==
    /\ loadable => res_qtr(raw) # {}
    /\ Called("get_lit_res_la", NoArgs, get_lit_res_la(raw), {})

Call_get_lit_res_drs ==
    /\ loadable => res_qtr(raw) # {}
    /\ Called("get_lit_res_drs", NoArgs, get_lit_res_drs(raw), {})

Call_get_pop ==
    /\ ret = NoCall
    /\ Called("get_pop", NoArgs, get_pop(raw), {})

Call_get_com_res_drs ==
    /\ loadable => res_qtr(raw) # {}
    /\ Called("get_com_res_drs", NoArgs, get_com_res_drs(raw), {})

Call_get_com_rec_drs_int ==
    /\ loadable => (get_com_rec_qtr(raw) # {} /\ res_qtr(raw) # {})
    /\ Called("get_com_rec_drs_int", NoArgs, get_com_rec_drs_int(raw),
              {"com_rec_drs_ddmm.csv"})

Call_get_com_rec_drs_zws ==
    /\ loadable => res_qtr(raw) # {}
    /\ Called("get_com_rec_drs_zws", NoArgs, get_com_rec_drs_zws(raw), {})

\* get_total_weight_drs_list reads no data
Call_get_total_weight_drs_list ==
    /\ ret = NoCall
    /\ \E ave_pet_size \in PetSizes :
          Returned("get_total_weight_drs_list", [NoArgs EXCEPT !.ave_pet_size = ave_pet_size],
                   get_total_weight_drs_list(ave_pet_size))
    /\ UNCHANGED <<raw, files, loadable>>

\* every pivot_table of the seven streams has rows
all_loaded(rawt) ==
    /\ get_hhkerb_rec_qtr(rawt) # {}
    /\ res_qtr(rawt) # {}
    /\ hwrcs_rec_loaded(rawt)
    /\ get_com_rec_qtr(rawt) # {}

Call_get_massflow_baseline ==
    /\ loadable => all_loaded(raw)
    /\ \E reuse \in YesNo, reject \in YesNo, hhkerb_rec_method \in Methods,
          com_rec_method \in ComRecMethods, dry_rec_method \in DryRecs, allnan \in AllNaNSums :
          Called("get_massflow_baseline",
                 [NoArgs EXCEPT !.reuse = reuse, !.reject = reject,
                                !.method = hhkerb_rec_method, !.com_rec_method = com_rec_method,
                                !.dry_rec = dry_rec_method, !.allnan = allnan],
                 get_massflow_baseline(raw, reuse, reject, hhkerb_rec_method, com_rec_method,
                                       dry_rec_method, allnan),
                 baseline_files(reuse, reject, hhkerb_rec_method, com_rec_method,
                                dry_rec_method))

-----------------------------------------------------------------------------
(* Household kerbside recycling: the records entered and the runs.         *)

KerbsideRow(a, row, d) == Record(a, Quarter1, "Q010", RecyclingCol, row, d)

KerbsideRecords ==
    {KerbsideRow(Cardiff, row, d) :
        row \in {"Mixed glass", "Mixed Plastic Bottles", "Plastics", "Steel cans",
                 "Aluminium cans", "Mixed cans",
                 "Composite food and beverage cartons", "Co mingled materials"},
        d \in {0, 100}}
    \cup {KerbsideRow(Swansea, row, d) :
        row \in {"Mixed Plastic Bottles", "Plastics"}, d \in {0, 100}}
    \cup {KerbsideRow(a, row, 100) :
        a \in {Neath, Powys}, row \in {"Steel cans", "Aluminium cans", "Mixed cans"}}
    \cup {KerbsideRow(a, "Paper", 500) : a \in {Cardiff, Swansea, Neath}}
    \cup {KerbsideRow(Cardiff, "Green garden waste only", 100),
          Record(Cardiff, Quarter2, "Q010", RecyclingCol, "Mixed glass", 100),
          Record(Cardiff, PrePeriod, "Q010", RecyclingCol, "Mixed glass", 100),
          Record(Cardiff, PostPeriod, "Q010", RecyclingCol, "Mixed glass", 100),
          Record(Cardiff, Quarter1, "Q010", ReuseCol, "Paper", 100)}

EnterKerbside == Enter(KerbsideRecords, MaxRecords)

Init ==
    /\ raw = {}
    /\ ret = NoCall
    /\ files = <<>>
    /\ loadable \in BOOLEAN

Next ==
    \/ EnterKerbside
    \/ Call_get_hhkerb_rec_la
    \/ Call_get_hhkerb_recreu_la
    \/ Call_get_hhkerb_rec_drs

Spec == Init /\ [][Next]_vars

-----------------------------------------------------------------------------
(* The streams that are not interpolated: the records entered and the runs. *)

StreamAuthorities == {Cardiff, Vale}

HwrcsRecords ==
    {Record(a, Quarter1, q, RecyclingCol, "Mixed glass", 100) :
        a \in StreamAuthorities, q \in {"Q010", "Q016", "Q017"}}
    \cup {Record(a, Quarter1, "Q016", RecyclingCol, "Plastics", 100) : a \in StreamAuthorities}
    \cup {Record(a, Quarter1, "Q023", "Tonnage", row, 100) :
        a \in StreamAuthorities, row \in {RegularCollection, CivicAmenity}}
    \cup {Record(a, Quarter1, "Q023", "Tonnage", StreetCleaning, 200) : a \in StreamAuthorities}
    \cup {Record(a, Quarter1, "Q023", "Tonnage", Flytipping, 30) : a \in StreamAuthorities}
    \cup {Record(Cardiff, Quarter1, "Q016", RecyclingCol, row, 100) :
        row \in {"Mixed Plastic Bottles", "Steel cans", "Mixed cans"}}
    \cup {Record(Cardiff, Quarter1, "Q016", RecyclingCol, "Mixed glass", 0),
          Record(Cardiff, Quarter1, "Q016", HwrcsReuseCol, "Furniture", 100)}

EnterHwrcs == Enter(HwrcsRecords, MaxHwrcsRecords)

NextHwrcs ==
    \/ EnterHwrcs
    \/ Call_get_hwrcs_rec_la
    \/ Call_get_hwrcs_recreu_la
    \/ Call_get_hwrcs_rec_drs
    \/ Call_get_hhkerb_rec_drs
    \/ Call_get_hhkerb_res_drs
    \/ Call_get_hwrcs_res_drs
    \/ Call_get_lit_res_drs

SpecHwrcs == Init /\ [][NextHwrcs]_vars

-----------------------------------------------------------------------------
(* The reuse and reject adjustments and litter: the records entered and    *)
(* the runs.                                                               *)

ResidualRecords ==
    {Record(a, Quarter1, "Q023", "Tonnage", row, 100) :
        a \in StreamAuthorities, row \in {RegularCollection, CivicAmenity}}
    \cup {Record(a, Quarter1, "Q023", "Tonnage", StreetCleaning, d) :
        a \in StreamAuthorities, d \in {100, 200}}
    \cup {Record(a, Quarter1, "Q023", "Tonnage", Flytipping, d) :
        a \in StreamAuthorities, d \in {30, 200}}
    \cup {Record(Cardiff, Quarter1, "Q010", RejectedCol, "Paper", d) : d \in {-5, 0, 100}}
    \cup {Record(Cardiff, Quarter1, "Q016", HwrcsRejectedCol, "Paper", d) : d \in {-5, 100}}
    \cup {Record(Cardiff, Quarter1, "Q010", ReuseCol, "Paper", d) : d \in {-5, 100}}
    \cup {Record(Vale, Quarter1, "Q010", col, "Paper", 100) :
        col \in {RecyclingCol, ReuseCol, RejectedCol}}
    \cup {Record(Cardiff, Quarter1, "Q010", RecyclingCol, "Paper", 500),
          Record(Cardiff, Quarter1, "Q010", RejectedCol, "Mixed glass", 50),
          Record(Vale, Quarter1, "Q016", HwrcsRejectedCol, "Paper", 100),
          Record(Cardiff, PrePeriod, "Q023", "Tonnage", StreetCleaning, 200)}

EnterResidual == Enter(ResidualRecords, MaxRecords)

NextResidual ==
    \/ EnterResidual
    \/ Call_get_hhkerb_recreu_la
    \/ Call_get_hhkerb_resrej_la
    \/ Call_get_hwrcs_resrej_la
    \/ Call_get_hhkerb_res_drs
    \/ Call_get_hwrcs_res_drs
    \/ Call_get_lit_res_la
    \/ Call_get_lit_res_drs

SpecResidual == Init /\ [][NextResidual]_vars

-----------------------------------------------------------------------------
(* The commercial streams: the populations, the records entered and the    *)
(* runs.                                                                   *)

CommercialAuthorities == {Cardiff, Swansea, Vale}

\* every authority reports one population figure, the same in each quarter
PopulationRecords(p) ==
    {Record(a, q, "Q001", "Number", PopulationRow, p[a]) :
        a \in CommercialAuthorities, q \in {Quarter1, Quarter2}}

CommercialRecords ==
    {Record(a, Quarter1, "Q011", RecyclingCol, "Mixed glass", d) :
        a \in CommercialAuthorities, d \in {0, 100}}
    \cup {Record(Cardiff, Quarter2, "Q011", RecyclingCol, "Mixed glass", 100)}
    \cup {Record(a, Quarter1, "Q011", RecyclingCol, row, 100) :
        a \in CommercialAuthorities,
        row \in {"Mixed Plastic Bottles", "Plastics", "Mixed cans"}}
    \cup {Record(a, Quarter1, "Q023", "Tonnage", CommercialIndustrial, 1000) :
        a \in CommercialAuthorities}

EnterCommercial == Enter(CommercialRecords, MaxCommercialRecords)

InitCommercial ==
    /\ \E p \in [CommercialAuthorities -> {25000, 50000}] : raw = PopulationRecords(p)
    /\ ret = NoCall
    /\ files = <<>>
    /\ loadable \in BOOLEAN

NextCommercial ==
    \/ EnterCommercial
    \/ Call_get_pop
    \/ Call_get_com_res_drs
    \/ Call_get_com_rec_drs_int

SpecCommercial == InitCommercial /\ [][NextCommercial]_vars

\* the population figures of Cardiff change from one quarter to the next
QuarterlyPopulationRecords(p) ==
    {Record(Cardiff, q, "Q001", "Number", PopulationRow, p[q]) : q \in {Quarter1, Quarter2}}
    \cup {Record(a, q, "Q001", "Number", PopulationRow, 50000) :
        a \in CommercialAuthorities \ {Cardiff}, q \in {Quarter1, Quarter2}}

InitQuarterly ==
    /\ \E p \in [{Quarter1, Quarter2} -> {25000, 50000}] : raw = QuarterlyPopulationRecords(p)
    /\ ret = NoCall
    /\ files = <<>>
    /\ loadable \in BOOLEAN

SpecQuarterly == InitQuarterly /\ [][NextCommercial]_vars

-----------------------------------------------------------------------------
(* The baseline: the sheet every stream can be computed from, the records  *)
(* entered on top of it and the runs.                                      *)

MaxBaselineRecords == 2

BaseSheet ==
    {Record(a, q, "Q001", "Number", PopulationRow, 50000) :
        a \in StreamAuthorities, q \in {Quarter1, Quarter2}}
    \cup {Record(Cardiff, Quarter1, q, RecyclingCol, "Mixed glass", 1000) :
        q \in {"Q011", "Q016", "Q017"}}
    \cup {Record(Cardiff, Quarter1, "Q010", RecyclingCol, "Co mingled materials", 1000),
          Record(Cardiff, Quarter1, "Q023", "Tonnage", RegularCollection, 1000),
          Record(Cardiff, Quarter1, "Q023", "Tonnage", CommercialIndustrial, 1000)}

BaselineRecords ==
    {Record(Cardiff, Quarter1, "Q010", RecyclingCol, "Composite food and beverage cartons", 3000),
     Record(Vale, Quarter1, "Q010", RecyclingCol, "Mixed glass", 1000),
     Record(Cardiff, Quarter1, "Q010", ReuseCol, "Paper", 1000),
     Record(Cardiff, Quarter1, "Q010", RejectedCol, "Paper", 1000),
     Record(Cardiff, Quarter1, "Q023", "Tonnage", CivicAmenity, 1000),
     Record(Cardiff, Quarter1, "Q023", "Tonnage", StreetCleaning, 1000)}

EnterBaseline ==
    /\ Cardinality(raw \ BaseSheet) < MaxBaselineRecords
    /\ Enter(BaselineRecords, Cardinality(raw) + 1)

InitBaseline ==
    /\ raw = BaseSheet
    /\ ret = NoCall
    /\ files = <<>>
    /\ loadable \in BOOLEAN

NextBaseline ==
    \/ EnterBaseline
    \/ Call_get_massflow_baseline
    \/ Call_get_total_weight_drs_list
    \/ Call_get_com_rec_drs_zws
    \/ Call_get_com_rec_drs_int
    \/ Call_get_com_res_drs
    \/ Call_get_hhkerb_rec_drs
    \/ Call_get_hhkerb_res_drs
    \/ Call_get_hwrcs_recreu_la
    \/ Call_get_hwrcs_rec_drs
    \/ Call_get_hwrcs_res_drs
    \/ Call_get_lit_res_drs

SpecBaseline == InitBaseline /\ [][NextBaseline]_vars

-----------------------------------------------------------------------------
(* Runs of the baseline one after another on the same day: the script is   *)
(* run again on the same sheet, the files of the earlier runs are still in *)
(* data_dir, and strftime('%d%m') gives every file name the same date.     *)

MaxBaselineFiles == 2

\* the names get_massflow_baseline can give its table (lines 875-881)
BaselineNames ==
    {baseline_name(reuse, reject, hhkerb_rec_method, com_rec_method, dry_rec_method) :
        reuse \in YesNo, reject \in YesNo, hhkerb_rec_method \in Methods,
        com_rec_method \in ComRecMethods, dry_rec_method \in DryRecs}

\* the next run starts: what the last call returned is gone, its files stay
Rerun ==
    /\ ret # NoCall
    /\ Cardinality(DOMAIN files \cap BaselineNames) < MaxBaselineFiles
    /\ ret' = NoCall
    /\ UNCHANGED <<raw, files, loadable>>

NextRuns ==
    \/ Call_get_massflow_baseline
    \/ Rerun

SpecRuns == InitBaseline /\ [][NextRuns]_vars

-----------------------------------------------------------------------------
(* Household kerbside recycling: properties of get_hhkerb_rec_drs.         *)

IsKerbside == ret.fn = "get_hhkerb_rec_drs"

\* the table get_hhkerb_rec_drs started from, row for row with ret.out
KerbsideInput ==
    IF ret.args.reuse = "Yes" THEN get_hhkerb_recreu_la(raw, ret.args.allnan)
    ELSE get_hhkerb_rec_la(raw, ret.args.allnan)

\* the coarsest level of row c under the call's options, for ratio co
KerbsideCoarsest(c, co) ==
    Mul(Mul(c[dry_rec_column(ret.args.dry_rec)],
            IF ret.args.comingled_reject = "Yes" THEN Frac(8915, 10000) ELSE Float(1)),
        co)

IsDefaultKerbside(comingled_reject) ==
    /\ IsKerbside
    /\ ret.args.reuse = "No" /\ ret.args.method = "WRAP" /\ ret.args.dry_rec = "Sum"
    /\ ret.args.comingled_reject = comingled_reject

\* C1: whenever the finest-grained column of a material is present for an
\* authority (an explicit zero included), the estimate is that value times
\* the fine-grained ratio, whatever the coarser columns hold.
C1_FineDataWins ==
    IsKerbside =>
        \A i \in 1..Len(ret.out) :
            LET c == KerbsideInput[i].v
                e == ret.out[i].v
                mixed_glass == IF ret.args.method = "Eunomia" THEN Frac(80, 100)
                               ELSE Frac(6564, 10000)
            IN  /\ notnull(c["Mixed glass"]) =>
                      e["DRS Glass Bottles"] = Mul(c["Mixed glass"], mixed_glass)
                /\ notnull(c["Mixed Plastic Bottles"]) =>
                      e["DRS Plastic Bottles"] =
                          Mul(c["Mixed Plastic Bottles"], Frac(9626, 10000))
                /\ notnull(c["Steel cans"]) =>
                      e["DRS Ferrous Cans"] = Mul(c["Steel cans"], Frac(1953, 10000))
                /\ notnull(c["Aluminium cans"]) =>
                      e["DRS Aluminium Cans"] = Mul(c["Aluminium cans"], Frac(9483, 10000))
                /\ notnull(c["Composite food and beverage cartons"]) =>
                      e["DRS Beverage Cartons"] = c["Composite food and beverage cartons"]

\* C2: for every option combination every estimate of every authority of the
\* returned table is a number (no NaN is left after the coarsest level).
C2_CascadeComplete ==
    IsKerbside =>
        \A i \in 1..Len(ret.out) : \A m \in DRSMaterials : notnull(ret.out[i].v[m])

\* C3 as stated: with the default options an authority without 'Mixed glass'
\* gets sum_dry_rec * 0.1599 and nothing more, one with 'Mixed glass' gets
\* Mixed glass * the mixed-glass ratio.
C3_GlassDefault ==
    IsDefaultKerbside("Yes") =>
        \A i \in 1..Len(ret.out) :
            LET c == KerbsideInput[i].v
            IN  ret.out[i].v["DRS Glass Bottles"] =
                    IF IsNaN(c["Mixed glass"])
                    THEN Mul(c["sum_dry_rec"], Frac(1599, 10000))
                    ELSE Mul(c["Mixed glass"], Frac(6564, 10000))

\* C3 amended: with the default options (comingled_reject = 'Yes') an
\* authority without 'Mixed glass' gets sum_dry_rec * 0.8915 * 0.1599
\* (500 gives 71.275425); only with comingled_reject = 'No' is there no
\* further factor (500 gives 79.95).  An authority with 'Mixed glass' gets
\* Mixed glass * 0.6564 (100 gives 65.64).
C3_GlassDefaultWithRejectRate ==
    \A cr \in YesNo :
        IsDefaultKerbside(cr) =>
            \A i \in 1..Len(ret.out) :
                LET c == KerbsideInput[i].v
                    glass == ret.out[i].v["DRS Glass Bottles"]
                    factor == IF cr = "Yes" THEN Frac(8915, 10000) ELSE Float(1)
                IN  /\ glass =
                          IF IsNaN(c["Mixed glass"])
                          THEN Mul(Mul(c["sum_dry_rec"], factor), Frac(1599, 10000))
                          ELSE Mul(c["Mixed glass"], Frac(6564, 10000))
                    /\ IsNaN(c["Mixed glass"]) /\ c["sum_dry_rec"] = Float(500) =>
                          glass = IF cr = "Yes" THEN Frac(71275425, 1000000)
                                  ELSE Frac(7995, 100)
                    /\ c["Mixed glass"] = Float(100) => glass = Frac(6564, 100)

\* an authority without 'Mixed glass' and sum_dry_rec = 500 got 71.275425
\* under the default options
C3_Witness ==
    /\ IsDefaultKerbside("Yes")
    /\ \E i \in 1..Len(ret.out) :
          /\ IsNaN(KerbsideInput[i].v["Mixed glass"])
          /\ KerbsideInput[i].v["sum_dry_rec"] = Float(500)
          /\ ret.out[i].v["DRS Glass Bottles"] = <<2851017, 40000>>

\* C4 as stated: Neath Port Talbot and Powys take both can estimates from the
\* coarsest level whatever their 'Mixed cans', 'Steel cans' and 'Aluminium
\* cans' are; every other authority with 'Mixed cans' uses the split.
C4_ExcludedGoCoarsest ==
    IsKerbside =>
        \A i \in 1..Len(ret.out) :
            LET a == ret.out[i].Authority
                c == KerbsideInput[i].v
                e == ret.out[i].v
            IN  /\ a \in {Neath, Powys} =>
                      /\ e["DRS Ferrous Cans"] = KerbsideCoarsest(c, Frac(101, 10000))
                      /\ e["DRS Aluminium Cans"] = KerbsideCoarsest(c, Frac(169, 10000))
                /\ a \notin {Neath, Powys} /\ notnull(c["Mixed cans"]) =>
                      /\ e["DRS Ferrous Cans"] = Mul(c["Mixed cans"], Frac(1453, 10000))
                      /\ e["DRS Aluminium Cans"] = Mul(c["Mixed cans"], Frac(2429, 10000))

\* C4 amended: Neath Port Talbot and Powys never use the 'Mixed cans' split:
\* DRS Ferrous Cans is Steel cans * 0.1953 when 'Steel cans' is present and
\* the coarsest level otherwise, DRS Aluminium Cans is Aluminium cans * 0.9483
\* when 'Aluminium cans' is present and the coarsest level otherwise; every
\* other authority with 'Mixed cans' uses the split.
C4_ExcludedSkipMixedCans ==
    IsKerbside =>
        \A i \in 1..Len(ret.out) :
            LET a == ret.out[i].Authority
                c == KerbsideInput[i].v
                e == ret.out[i].v
            IN  /\ a \in {Neath, Powys} =>
                      /\ e["DRS Ferrous Cans"] =
                            IF notnull(c["Steel cans"])
                            THEN Mul(c["Steel cans"], Frac(1953, 10000))
                            ELSE KerbsideCoarsest(c, Frac(101, 10000))
                      /\ e["DRS Aluminium Cans"] =
                            IF notnull(c["Aluminium cans"])
                            THEN Mul(c["Aluminium cans"], Frac(9483, 10000))
                            ELSE KerbsideCoarsest(c, Frac(169, 10000))
                /\ a \notin {Neath, Powys} /\ notnull(c["Mixed cans"]) =>
                      /\ e["DRS Ferrous Cans"] = Mul(c["Mixed cans"], Frac(1453, 10000))
                      /\ e["DRS Aluminium Cans"] = Mul(c["Mixed cans"], Frac(2429, 10000))

\* Neath Port Talbot with 'Mixed cans' and 'Steel cans' got Steel cans * 0.1953
C4_Witness ==
    /\ IsKerbside
    /\ \E i \in 1..Len(ret.out) :
          /\ ret.out[i].Authority = Neath
          /\ KerbsideInput[i].v["Mixed cans"] = Float(100)
          /\ KerbsideInput[i].v["Steel cans"] = Float(100)
          /\ ret.out[i].v["DRS Ferrous Cans"] = Frac(1953, 100)

\* C5: the ratio 0.5738 is applied to the authority named
\* 'City  and County of Swansea ' and to no other: Swansea gets
\* Plastics * 0.5738, or the coarsest level when 'Plastics' is absent; every
\* other authority gets what the cascade without the override gives.
C5_SwanseaOverride ==
    IsKerbside =>
        \A i \in 1..Len(ret.out) :
            LET a == ret.out[i].Authority
                c == KerbsideInput[i].v
                plastics == IF ret.args.method = "Eunomia" THEN Frac(22, 100)
                            ELSE Frac(6847, 10000)
                coarsest == KerbsideCoarsest(c, Frac(669, 10000))
            IN  ret.out[i].v["DRS Plastic Bottles"] =
                    IF a = "City  and County of Swansea "
                    THEN IF notnull(c["Plastics"])
                         THEN Mul(c["Plastics"], Frac(5738, 10000))
                         ELSE coarsest
                    ELSE IF notnull(c["Mixed Plastic Bottles"])
                         THEN Mul(c["Mixed Plastic Bottles"], Frac(9626, 10000))
                         ELSE IF notnull(c["Plastics"])
                              THEN Mul(c["Plastics"], plastics)
                              ELSE coarsest

\* Swansea with 'Mixed Plastic Bottles' and 'Plastics' got Plastics * 0.5738
C5_Witness ==
    /\ IsKerbside
    /\ \E i \in 1..Len(ret.out) :
          /\ ret.out[i].Authority = Swansea
          /\ KerbsideInput[i].v["Mixed Plastic Bottles"] = Float(100)
          /\ KerbsideInput[i].v["Plastics"] = Float(100)
          /\ ret.out[i].v["DRS Plastic Bottles"] = Frac(5738, 100)


-----------------------------------------------------------------------------
(* HWRCs recycling: properties of get_hwrcs_rec_la.                        *)

HwrcsMaterials == drslist \ {"sum_dry_rec"}

\* the annual tonnage of authority a in column row of the records recs, an
\* absent value counting as zero
OwnTonnage(recs, a, row) == SumData({r \in recs : r.Authority = a /\ r.RowText = row})

\* C6: get_hwrcs_rec_la returns exactly one row for every authority of the
\* CA-sites (Q016) or the bring-sites (Q017) recycling table, and in that row
\* every material column is the authority's own CA-sites value plus its own
\* bring-sites value, an absent value counting as zero.
C6_OwnCaPlusOwnBring ==
    ret.fn = "get_hwrcs_rec_la" =>
        LET ca == {r \in raw : /\ r.Period # PrePeriod /\ r.QuestionNumber = "Q016"
                               /\ r.ColText = RecyclingCol}
            bring == {r \in raw : /\ r.Period # PrePeriod /\ r.QuestionNumber = "Q017"
                                  /\ r.ColText = RecyclingCol}
            auths == {r.Authority : r \in ca \cup bring}
        IN  /\ Len(ret.out) = Cardinality(auths)
            /\ \A a \in auths :
                  /\ HasRow(ret.out, a)
                  /\ \A c \in HwrcsMaterials :
                        RowOf(ret.out, a).v[c]
                            = Float(OwnTonnage(ca, a, c) + OwnTonnage(bring, a, c))

-----------------------------------------------------------------------------
(* The streams that are not interpolated: whose records a row depends on.  *)

NonInterpolated ==
    {"get_hhkerb_rec_drs", "get_hhkerb_res_drs", "get_hwrcs_rec_drs",
     "get_hwrcs_res_drs", "get_lit_res_drs"}

\* the function fn can be called on the sheet rawt
StreamLoaded(fn, rawt) ==
    CASE fn = "get_hhkerb_rec_drs" -> get_hhkerb_rec_qtr(rawt) # {}
      [] fn = "get_hwrcs_rec_drs" -> hwrcs_rec_loaded(rawt)
      [] OTHER -> res_qtr(rawt) # {}

\* the DRSMaterialTable fn returns on the sheet rawt for the arguments args
StreamOut(fn, args, rawt) ==
    CASE fn = "get_hhkerb_rec_drs" ->
            get_hhkerb_rec_drs(rawt, args.reuse, args.method, args.dry_rec,
                               args.comingled_reject, args.allnan)
      [] fn = "get_hhkerb_res_drs" -> get_hhkerb_res_drs(rawt, args.reject, args.method)
      [] fn = "get_hwrcs_rec_drs" -> get_hwrcs_rec_drs(rawt, args.reuse, args.dry_rec)
      [] fn = "get_hwrcs_res_drs" -> get_hwrcs_res_drs(rawt, args.reject)
      [] fn = "get_lit_res_drs" -> get_lit_res_drs(rawt)

\* C7: for the streams that are not interpolated, the five DRS values of an
\* authority depend on its own records only: removing records of other
\* authorities from the sheet leaves the authority's output row as it is.
C7_OwnRecordsOnly ==
    ret.fn \in NonInterpolated =>
        \A a \in StreamAuthorities :
            HasRow(ret.out, a) =>
                \A S \in SUBSET {r \in raw : r.Authority # a} :
                    StreamLoaded(ret.fn, raw \ S) =>
                        LET other == StreamOut(ret.fn, ret.args, raw \ S)
                        IN  /\ HasRow(other, a)
                            /\ RowOf(other, a).v = RowOf(ret.out, a).v

-----------------------------------------------------------------------------
(* The reuse and reject adjustments.                                       *)

\* the sum of the adjustment rows of authority a (question q, column col)
\* whose Data is strictly positive; zero when there is no such row
PositiveSum(q, col, a) ==
    SumData({r \in raw : /\ r.Period # PrePeriod /\ r.QuestionNumber \in q
                         /\ r.ColText = col /\ r.Authority = a /\ r.Data > 0})

\* the adjusted table has the authorities of the primary table and its
\* column is the primary column plus the positive adjustment rows
Adjusted(primary, column, q, col) ==
    /\ Len(ret.out) = Len(primary)
    /\ \A i \in 1..Len(primary) :
          /\ ret.out[i].Authority = primary[i].Authority
          /\ ret.out[i].v[column]
                = Add(primary[i].v[column],
                      Float(PositiveSum(q, col, primary[i].Authority)))

\* C8: with the reuse (reject) adjustment, the adjusted table has exactly
\* the authorities of the primary table, and the adjusted tonnage of each is
\* its primary tonnage plus the sum of its adjustment rows with Data > 0,
\* which is zero for an authority with no such row.
C8_AdjustmentAdded ==
    /\ ret.fn = "get_hhkerb_recreu_la" =>
          Adjusted(get_hhkerb_rec_la(raw, ret.args.allnan), "sum_dry_rec", {"Q010"}, ReuseCol)
    /\ ret.fn = "get_hhkerb_resrej_la" =>
          Adjusted(get_hhkerb_res_la(raw), RegularCollection, {"Q010"}, RejectedCol)
    /\ ret.fn = "get_hwrcs_resrej_la" =>
          Adjusted(get_hwrcs_res_la(raw), CivicAmenity, {"Q016"}, HwrcsRejectedCol)

\* a reject adjustment was made where one authority of the residual table
\* has positive rejected tonnage and an authority with rejected tonnage only
\* is left out
C8_Witness ==
    /\ ret.fn = "get_hhkerb_resrej_la"
    /\ \E i \in 1..Len(ret.out) :
          /\ PositiveSum({"Q010"}, RejectedCol, ret.out[i].Authority) = 100
          /\ ret.out[i].v[RegularCollection] = Float(200)

-----------------------------------------------------------------------------
(* Litter.                                                                 *)

\* the annual tonnage of authority a in row of the residual question
ResidualTonnage(a, row) ==
    SumData({r \in raw : /\ r.Period # PrePeriod /\ r.QuestionNumber = "Q023"
                         /\ r.ColText = "Tonnage" /\ r.Authority = a /\ r.RowText = row})

-----------------------------------------------------------------------------
(* The commercial interpolation.                                           *)

\* the commercial 'Mixed glass' records
ComGlass ==
    {r \in raw : /\ r.Period # PrePeriod /\ r.QuestionNumber = "Q011"
                 /\ r.ColText = RecyclingCol /\ r.RowText = "Mixed glass"}

\* the authorities that have a 'Mixed glass' figure
WithFigure == {r.Authority : r \in ComGlass}

\* the population of authority a
PopulationOf(a) ==
    (CHOOSE r \in raw : r.QuestionNumber = "Q001" /\ r.Authority = a).Data

\* Mixed glass / population of an authority that has a figure
GlassRate(a) == Frac(OwnTonnage(ComGlass, a, "Mixed glass"), PopulationOf(a))

\* the k-th smallest of the rates
RateAt(k) ==
    GlassRate(CHOOSE a \in WithFigure :
        /\ Cardinality({b \in WithFigure : Less(GlassRate(b), GlassRate(a))}) <= k - 1
        /\ Cardinality({b \in WithFigure : ~Less(GlassRate(a), GlassRate(b))}) >= k)

MedianRate ==
    LET n == Cardinality(WithFigure)
    IN  IF n % 2 = 1 THEN RateAt((n + 1) \div 2)
        ELSE Mul(Add(RateAt(n \div 2), RateAt(n \div 2 + 1)), Frac(1, 2))

\* C10: in get_com_rec_drs_int an authority of the population table with no
\* commercial 'Mixed glass' figure gets DRS Glass Bottles = 0.75 x its
\* population x the median of Mixed glass / population over the authorities
\* with a figure (50,000 and 0.002 give 75.0); an authority with a figure
\* gets 0.75 x its own Mixed glass.
C10_MedianEstimate ==
    (ret.fn = "get_com_rec_drs_int" /\ WithFigure # {}) =>
        /\ {ret.out[i].Authority : i \in 1..Len(ret.out)} = CommercialAuthorities
        /\ \A i \in 1..Len(ret.out) :
              LET a == ret.out[i].Authority
                  glass == ret.out[i].v["DRS Glass Bottles"]
              IN  IF a \in WithFigure
                  THEN glass = Mul(Frac(75, 100), Float(OwnTonnage(ComGlass, a, "Mixed glass")))
                  ELSE /\ glass = Mul(Frac(75, 100), Mul(Float(PopulationOf(a)), MedianRate))
                       /\ (PopulationOf(a) = 50000 /\ MedianRate = Frac(2, 1000)) =>
                             glass = Float(75)

\* the estimator ran where an authority of population 50,000 has no figure
\* and the median rate of the two authorities that have one is 0.002
C10_Witness ==
    /\ ret.fn = "get_com_rec_drs_int"
    /\ Cardinality(WithFigure) = 2
    /\ MedianRate = Frac(2, 1000)
    /\ \E i \in 1..Len(ret.out) :
          /\ ret.out[i].Authority \notin WithFigure
          /\ PopulationOf(ret.out[i].Authority) = 50000
          /\ ret.out[i].v["DRS Glass Bottles"] = Float(75)


-----------------------------------------------------------------------------
(* The reporting year.                                                     *)

\* the four quarters of the reporting year, April 2014 to March 2015
ReportingYear ==
    {"Apr 14 - Jun 14", "Jul 14 - Sep 14", "Oct 14 - Dec 14", "Jan 15 - Mar 15"}

\* the kerbside recycling records of authority a in column c that belong to
\* the reporting year
YearRecords(a, c) ==
    {r \in raw : /\ r.Period \in ReportingYear /\ r.QuestionNumber = "Q010"
                 /\ r.ColText = RecyclingCol /\ r.Authority = a /\ r.RowText = c}

\* C17: every annual figure of an authority is the sum of its values over
\* the four quarters of the reporting year only; a record of a period
\* before or after the year contributes to no output value.
C17_ReportingYearOnly ==
    (ret.fn = "get_hhkerb_rec_la" /\ ~ret.raised) =>
        \A i \in 1..Len(ret.out) :
            \A c \in hhkerb_columns \ {"sum_dry_rec"} :
                LET S == YearRecords(ret.out[i].Authority, c)
                IN  ret.out[i].v[c] = IF S = {} THEN NaN ELSE Float(SumData(S))


-----------------------------------------------------------------------------
(* HWRCs recycling: the trigger of the fallback.                           *)

\* the table get_hwrcs_rec_drs started from, row for row with ret.out
HwrcsInput ==
    IF ret.args.reuse = "Yes" THEN get_hwrcs_recreu_la(raw) ELSE get_hwrcs_rec_la(raw)

NonZero(x) == x # Float(0)

\* C18: get_hwrcs_rec_drs falls back on zero: DRS Plastic Bottles is 'Mixed
\* Plastic Bottles' when non-zero, else Plastics x 0.50 when non-zero, else
\* the denominator x 0.16528; DRS Ferrous Cans is 'Steel cans' when non-zero,
\* else Mixed cans x 0.80 when non-zero, else the denominator x 0.1123; DRS
\* Glass Bottles is the denominator x 0.0245 exactly when Mixed glass x 0.75
\* + Clear glass x 0.35 + Brown glass + Green glass is zero.
C18_ZeroTrigger ==
    (ret.fn = "get_hwrcs_rec_drs" /\ ~ret.raised) =>
        \A i \in 1..Len(ret.out) :
            LET c == HwrcsInput[i].v
                e == ret.out[i].v
                den == c[IF ret.args.dry_rec = "Sum" THEN "sum_dry_rec"
                         ELSE "Co mingled materials"]
                glass == Add(Add(Add(Mul(c["Mixed glass"], Frac(75, 100)),
                                     Mul(c["Clear glass"], Frac(35, 100))),
                                 c["Brown glass"]),
                             c["Green glass"])
            IN  /\ e["DRS Plastic Bottles"] =
                      IF NonZero(c["Mixed Plastic Bottles"]) THEN c["Mixed Plastic Bottles"]
                      ELSE IF NonZero(c["Plastics"]) THEN Mul(c["Plastics"], Frac(50, 100))
                      ELSE Mul(den, Frac(16528, 100000))
                /\ e["DRS Ferrous Cans"] =
                      IF NonZero(c["Steel cans"]) THEN c["Steel cans"]
                      ELSE IF NonZero(c["Mixed cans"]) THEN Mul(c["Mixed cans"], Frac(80, 100))
                      ELSE Mul(den, Frac(1123, 10000))
                /\ e["DRS Glass Bottles"] =
                      IF NonZero(glass) THEN glass ELSE Mul(den, Frac(245, 10000))

\* an authority with zero 'Mixed Plastic Bottles' and zero 'Plastics' and a
\* denominator of 100 got 100 x 0.16528, and one with a zero glass sum got
\* 100 x 0.0245
C18_Witness ==
    /\ ret.fn = "get_hwrcs_rec_drs"
    /\ ~ret.raised
    /\ \E i \in 1..Len(ret.out) :
          /\ HwrcsInput[i].v["Mixed Plastic Bottles"] = Float(0)
          /\ HwrcsInput[i].v["Plastics"] = Float(0)
          /\ HwrcsInput[i].v["Mixed glass"] = Float(0)
          /\ ret.out[i].v["DRS Plastic Bottles"] = Frac(16528, 1000)
          /\ ret.out[i].v["DRS Glass Bottles"] = Frac(245, 100)


-----------------------------------------------------------------------------
(* The reference weights and the baseline table.                           *)

IsBaseline == ret.fn = "get_massflow_baseline" /\ ~ret.raised

\* the five material rows of column c of the returned table, added up
FiveRows(c) ==
    Add(Add(Add(Add(ret.out[c][1], ret.out[c][2]), ret.out[c][3]), ret.out[c][4]),
        ret.out[c][5])

\* the seven stream cells of row i of the returned table, added up
SevenStreams(i) ==
    QAdd(QAdd(QAdd(QAdd(QAdd(QAdd(QFrac(ret.out[stream_list[1]][i]),
                                  QFrac(ret.out[stream_list[2]][i])),
                             QFrac(ret.out[stream_list[3]][i])),
                        QFrac(ret.out[stream_list[4]][i])),
                   QFrac(ret.out[stream_list[5]][i])),
              QFrac(ret.out[stream_list[6]][i])),
         QFrac(ret.out[stream_list[7]][i]))

\* the ratio of recycling to residual that get_com_rec_drs_zws applies
ZwsRatio(m) ==
    CASE m = "DRS Glass Bottles" -> Frac(3, 2)
      [] m = "DRS Plastic Bottles" -> Frac(3, 7)
      [] m = "DRS Ferrous Cans" -> Frac(2, 3)
      [] m = "DRS Aluminium Cans" -> Frac(2, 3)
      [] m = "DRS Beverage Cartons" -> Frac(3, 7)

\* C11: get_massflow_baseline fills 'Commercial Recycling' from the one
\* estimator com_rec_method names: under 'Interpolation' the column holds
\* the sums of get_com_rec_drs_int, whose export is written; under 'Eunomia'
\* it holds the commercial residual column times the fixed ratio of each
\* material (glass 0.6/0.4, plastic 0.3/0.7, ferrous and aluminium 0.4/0.6,
\* cartons 0.3/0.7) and get_com_rec_drs_int is not run; and every row of
\* get_com_rec_drs_zws is the commercial residual row times those ratios.
C11_OneCommercialEstimator ==
    /\ IsBaseline =>
          /\ ("com_rec_drs_ddmm.csv" \in DOMAIN files)
                <=> (ret.args.com_rec_method = "Interpolation")
          /\ \A i \in 1..5 :
                ret.out["Commercial Recycling"][i] =
                    IF ret.args.com_rec_method = "Eunomia"
                    THEN Mul(ret.out["Commercial Residual"][i], ZwsRatio(drs_list[i]))
                    ELSE replaceNaN(column_sum(get_com_rec_drs_int(raw), drs_list[i],
                                               ret.args.allnan), Float(0))
    /\ (ret.fn = "get_com_rec_drs_zws" /\ ~ret.raised) =>
          \A i \in 1..Len(ret.out) : \A m \in DRSMaterials :
              ret.out[i].v[m] = Mul(get_com_res_drs(raw)[i].v[m], ZwsRatio(m))

\* a baseline under 'Eunomia' whose commercial recycling of glass is not
\* what the interpolation gives
C11_Witness ==
    /\ IsBaseline
    /\ ret.args.com_rec_method = "Eunomia"
    /\ ret.out["Commercial Residual"][1] # Float(0)
    /\ ret.out["Commercial Recycling"][1] #
           replaceNaN(column_sum(get_com_rec_drs_int(raw), drs_list[1], ret.args.allnan),
                      Float(0))

\* C12: in the baseline table the 'Total' row of every stream column is the
\* sum of the column's five material rows.
C12_TotalIsSumOfMaterials ==
    IsBaseline => \A k \in 1..7 : ret.out[stream_list[k]][6] = FiveRows(stream_list[k])

\* a baseline with a stream whose glass and cartons are not zero
C12_Witness ==
    /\ IsBaseline
    /\ \E k \in 1..7 :
          ret.out[stream_list[k]][5] # Float(0) /\ ret.out[stream_list[k]][1] # Float(0)

\* C13: 'Remains in Environment (leftover)' of the five material rows and of
\* the 'Total' row is the reference weight less the sum of the seven stream
\* values of the row, below zero exactly when the streams exceed the
\* reference.
C13_LeftoverIsReferenceLessStreams ==
    IsBaseline =>
        \A i \in 1..6 :
            /\ QEq(ret.out[Leftover][i], QSub(ret.out[TotalWeight][i], SevenStreams(i)))
            /\ ret.out[Leftover][i].neg <=> QLess(ret.out[TotalWeight][i], SevenStreams(i))

\* a baseline whose streams exceed the reference weight of the cartons and
\* not that of the glass
C13_Witness ==
    /\ IsBaseline
    /\ ret.out[Leftover][5].neg
    /\ QLess(ret.out[TotalWeight][5], SevenStreams(5))
    /\ QLess(SevenStreams(1), ret.out[TotalWeight][1])
    /\ SevenStreams(1).n # <<>>

\* C14: the 'Percent Contribution' of every stream column is the stream's
\* 'Total' divided by the 'Total' of 'Total Weight in Thousand Tonnes' times
\* 100, so that the seven streams and the remains add up to 100.
C14_PercentOfReferenceTotal ==
    IsBaseline =>
        /\ \A k \in 1..7 :
              QEq(QFrac(ret.out[stream_list[k]][7]),
                  QMul(QDiv(QFrac(ret.out[stream_list[k]][6]), ret.out[TotalWeight][6]),
                       QInt(100)))
        /\ QEq(QAdd(SevenStreams(7), ret.out[Leftover][7]), QInt(100))

\* the five options of a baseline run
Options(args) == <<args.reuse, args.reject, args.method, args.com_rec_method, args.dry_rec>>

\* C15: a baseline file in data_dir is never written again by a run of other
\* options: runs that differ in reuse, reject, hhkerb_rec_method,
\* com_rec_method or dry_rec_method write their tables under different names.
C15_DifferentOptionsDifferentFiles ==
    [][\A n \in DOMAIN files \cap BaselineNames :
          Options(files'[n].args) = Options(files[n].args)]_vars

C19_ReferenceIgnoresPetSize ==
    ret.fn = "get_total_weight_drs_list" =>
        /\ \A size \in PetSizes : \A i \in 1..7 :
              QEq(ret.out[i], get_total_weight_drs_list(size)[i])
        /\ QEq(ret.out[6],
               QAdd(QAdd(QAdd(QAdd(ret.out[1], ret.out[2]), ret.out[3]), ret.out[4]),
                    ret.out[5]))
        /\ ret.out[7].n = <<>>

\* the list returned for bottles of 1.5 litres
C19_Witness ==
    /\ ret.fn = "get_total_weight_drs_list"
    /\ ret.args.ave_pet_size = Frac(3, 2)
    /\ QEq(ret.out[2], QFrac(Frac(86768477, 2018650)))

OtherMethod(method) == IF method = "WRAP" THEN "Eunomia" ELSE "WRAP"

\* the baseline of the same run under the other hhkerb_rec_method
OtherBaseline ==
    get_massflow_baseline(raw, ret.args.reuse, ret.args.reject, OtherMethod(ret.args.method),
                          ret.args.com_rec_method, ret.args.dry_rec, ret.args.allnan)

\* C20: between hhkerb_rec_method 'WRAP' and 'Eunomia' the six stream
\* columns other than 'Household Kerbside Recycling' are the same,
\* 'Household Kerbside Residual' included.
C20_MethodChangesKerbsideRecyclingOnly ==
    IsBaseline =>
        LET other == OtherBaseline
        IN  \A k \in 2..7 : ret.out[stream_list[k]] = other[stream_list[k]]

\* a baseline whose kerbside recycling of glass differs between the methods
\* and whose kerbside residual is not zero
C20_Witness ==
    /\ IsBaseline
    /\ ret.args.method = "Eunomia"
    /\ ret.out["Household Kerbside Residual"][1] # Float(0)
    /\ ret.out["Household Kerbside Recycling"][1]
           # OtherBaseline["Household Kerbside Recycling"][1]

\* the authorities that have a 'Population of Authority' record
WithPopulation ==
    {r.Authority : r \in {x \in raw : /\ x.Period # PrePeriod /\ x.QuestionNumber = "Q001"
                                      /\ x.RowText = PopulationRow}}

\* C21: the population table of get_pop and the tables of get_com_res_drs and
\* get_com_rec_drs_int hold exactly one row for each authority that has a
\* 'Population of Authority' record, also when the figures of an authority
\* differ between quarters.
C21_OneRowPerAuthority ==
    (ret.fn \in {"get_pop", "get_com_res_drs", "get_com_rec_drs_int"} /\ ~ret.raised) =>
        /\ {ret.out[i].Authority : i \in 1..Len(ret.out)} = WithPopulation
        /\ Len(ret.out) = Cardinality(WithPopulation)

\* authority a reports the kerbside recycling material row
Reported(a, row) ==
    \E r \in raw : /\ r.Period # PrePeriod /\ r.QuestionNumber = "Q010"
                   /\ r.ColText = RecyclingCol /\ r.Authority = a /\ r.RowText = row

\* the estimate of material m of authority a is taken from the coarsest
\* (dry-recycling) level: no finer column that the code reads for a and m
\* holds a value
FromCoarsest(a, m) ==
    CASE m = "DRS Glass Bottles" -> ~Reported(a, "Mixed glass")
      [] m = "DRS Plastic Bottles" ->
            /\ ~Reported(a, "Plastics")
            /\ a # Swansea => ~Reported(a, "Mixed Plastic Bottles")
      [] m = "DRS Ferrous Cans" ->
            /\ ~Reported(a, "Steel cans")
            /\ a \notin {Neath, Powys} => ~Reported(a, "Mixed cans")
      [] m = "DRS Aluminium Cans" ->
            /\ ~Reported(a, "Aluminium cans")
            /\ a \notin {Neath, Powys} => ~Reported(a, "Mixed cans")
      [] m = "DRS Beverage Cartons" -> ~Reported(a, "Composite food and beverage cartons")

\* the table of the same call under the other value of reuse
OtherReuse ==
    get_hhkerb_rec_drs(raw, IF ret.args.reuse = "Yes" THEN "No" ELSE "Yes", ret.args.method,
                       ret.args.dry_rec, ret.args.comingled_reject, ret.args.allnan)

\* C22: in get_hhkerb_rec_drs the tables for reuse 'Yes' and reuse 'No' are
\* the same under dry_rec 'Comingled'; under dry_rec 'Sum' they have the same
\* authorities and differ only in estimates taken from the coarsest
\* (dry-recycling) level.
C22_ReuseChangesCoarsestOnly ==
    (IsKerbside /\ ~ret.raised) =>
        LET other == OtherReuse
        IN  /\ Len(other) = Len(ret.out)
            /\ \A i \in 1..Len(ret.out) : other[i].Authority = ret.out[i].Authority
            /\ ret.args.dry_rec = "Comingled" => other = ret.out
            /\ \A i \in 1..Len(ret.out) : \A m \in DRSMaterials :
                  other[i].v[m] # ret.out[i].v[m] => FromCoarsest(ret.out[i].Authority, m)

\* a call with reuse where Cardiff reports 'Mixed glass' and reuse tonnage:
\* the glass estimate is that of the call without reuse, the cartons
\* estimate is not
C22_Witness ==
    /\ IsKerbside /\ ~ret.raised
    /\ ret.args.reuse = "Yes" /\ ret.args.dry_rec = "Sum"
    /\ Reported(Cardiff, "Mixed glass")
    /\ \E i \in 1..Len(ret.out) :
          /\ ret.out[i].Authority = Cardiff
          /\ ret.out[i].v["DRS Glass Bottles"] = OtherReuse[i].v["DRS Glass Bottles"]
          /\ ret.out[i].v["DRS Beverage Cartons"] # OtherReuse[i].v["DRS Beverage Cartons"]

\* the estimators of the six streams other than litter
SixStreams ==
    {"get_hhkerb_rec_drs", "get_hhkerb_res_drs", "get_hwrcs_rec_drs", "get_hwrcs_res_drs",
     "get_com_rec_drs_int", "get_com_rec_drs_zws", "get_com_res_drs"}

\* no tonnage of the sheet is negative and every population is positive
NonNegativeSheet ==
    \A r \in raw : IF r.QuestionNumber = "Q001" THEN r.Data > 0 ELSE r.Data >= 0

====
